---- MODULE Spec2Model ----
(***************************************************************************)
(* State-machine model of the Self-Engineering Agent Framework: the        *)
(* capability registry, the TDD synthesis engine, the tool executor, the   *)
(* composition planner and the orchestrator's request routing.             *)
(*                                                                         *)
(* Every public operation is one action that models the whole handler.     *)
(* The external collaborators (LLM backend, Docker, Supabase, the tools'   *)
(* own behaviour) are nondeterministic: each action draws their outcomes   *)
(* from small sets.  Python exceptions are values: an operator that models *)
(* a function returns a record whose "raised" field names the exception    *)
(* class that leaves the function ("none" when it returns normally).       *)
(* Progress callbacks are event sinks that do not raise.                   *)
(***************************************************************************)
EXTENDS Integers, Sequences, FiniteSets, TLC

VARIABLES
    tool_files,    \* TOOLS_DIR/<name>.py      : name -> implementation source
    test_files,    \* TOOLS_DIR/test_<name>.py : name -> test source
    agent_tools,   \* rows of the agent_tools table (keyed by name)
    verified,      \* history: [name, code, tests] for which verify_tool returned success
    add_calls,     \* history: [name, code, tests] handed to registry.add_tool
    last,          \* trace of the operation that ran last
    execution_cache,   \* rows of the execution_cache table
    now,               \* the wall clock, in hours
    current_session_id,    \* WorkflowTracker.current_session_id (0: None)
    session_tools,         \* WorkflowTracker.session_tools
    workflow_patterns,     \* rows of the workflow_patterns table
    tool_relationships,    \* pairwise counters kept by update_tool_relationship
    session_log,           \* history: store writes made since the session started
    session_count,         \* number of sessions started so far
    image_exists,          \* Docker: the sandbox image is present
    containers,            \* Docker: containers of the sandbox image, by the call that started them
    temp_dirs,             \* file system: directories made by mkdtemp, by the call that made them
    sandbox_calls,         \* per verify_tool call: its position and its locals
    row_docstring,         \* agent_tools.docstring : name -> docstring of the row
    add_writers,           \* per concurrent add_tool call: its argument and its position
    agent_policies,        \* rows of the agent_policies table
    tool_versions,         \* rows of the tool_versions table
    reflection_log,        \* rows of the reflection_log table
    composite_candidates,  \* rows of the composite_candidates table
    composite_tools,       \* rows of the composite_tools table, with the sources they were given
    composite_files,       \* TOOLS_DIR files of composites : name -> [code, tests]
    composite_verified,    \* history: [name, code, tests] that passed verify_tool
    register_calls,        \* history: [name, code, tests] handed to _register_composite
    requests               \* per interleaving process_request call: its position and what it logged

core_vars == <<tool_files, test_files, agent_tools, verified, add_calls>>
cache_vars == <<execution_cache, now>>
\* What the registry, synthesis, executor and orchestrator operations leave alone.
tracker_vars == <<current_session_id, session_tools, workflow_patterns,
                  tool_relationships, session_log, session_count>>
sandbox_vars == <<image_exists, containers, temp_dirs, sandbox_calls>>
writer_vars == <<row_docstring, add_writers>>
policy_vars == <<agent_policies>>
reflection_vars == <<tool_versions, reflection_log>>
composite_vars == <<composite_candidates, composite_tools, composite_files,
                    composite_verified, register_calls>>
request_vars == <<requests>>
aux_vars == <<cache_vars, tracker_vars, sandbox_vars, writer_vars, policy_vars,
             reflection_vars, composite_vars, request_vars>>
\* What the cache operations and the tracker operations leave alone.
cache_frame == <<core_vars, tracker_vars, sandbox_vars, writer_vars,
                 policy_vars,
                 reflection_vars, composite_vars, request_vars>>
tracker_frame == <<core_vars, cache_vars, sandbox_vars, writer_vars,
                   policy_vars,
                   reflection_vars, composite_vars, request_vars>>
\* What the steps of interleaving requests leave alone.
request_frame == <<core_vars, cache_vars, sandbox_vars, writer_vars,
                            policy_vars, reflection_vars, composite_vars>>
sandbox_frame == <<core_vars, cache_vars, tracker_vars, writer_vars,
                   policy_vars,
                   reflection_vars, composite_vars, request_vars>>
writer_frame == <<verified, add_calls, last, cache_vars, tracker_vars,
                  sandbox_vars, policy_vars,
                  reflection_vars, composite_vars, request_vars>>
policy_frame == <<core_vars, cache_vars, tracker_vars, sandbox_vars,
                  writer_vars,
                  reflection_vars, composite_vars, request_vars>>
\* What the reflection engine leaves alone, besides the registry's histories.
reflection_frame == <<cache_vars, tracker_vars, sandbox_vars, writer_vars,
                      policy_vars, composite_vars, request_vars>>
composite_frame == <<core_vars, cache_vars, tracker_vars, sandbox_vars,
                     writer_vars, policy_vars, reflection_vars, request_vars>>
vars == <<core_vars, last, cache_vars, tracker_vars, sandbox_vars,
          writer_vars, policy_vars, reflection_vars, composite_vars, request_vars>>

(***************************************************************************)
(* Bounds of the model                                                     *)
(***************************************************************************)
MaxRetriesBound == 2    \* largest max_retries a caller passes
MaxSteps == 3           \* longest sub_task list handed to execute_workflow
MaxPlanSteps == 2       \* longest sub_task list the query planner returns
MaxClock == 3           \* the clock stops advancing at this hour
MaxHits == 2            \* largest cache_hits counter followed
MaxSessions == 2        \* tracking sessions started in a run
MaxSessionTools == 3    \* executions logged in one session
MaxRequests == 2        \* process_request calls that interleave
MaxRequestTools == 2    \* executions one interleaving request logs

(***************************************************************************)
(* Program constants                                                       *)
(***************************************************************************)
DefaultMaxRetries == 2

(***************************************************************************)
(* Values                                                                  *)
(***************************************************************************)
Names == {"calculate_percentage", "reverse_string"}
NoFile == "no_file"
NoTests == {"no_file"}
SeedImpl == "seed_impl"
SeedTests == {"case", "imports"}
ImplSrc == {"impl_a", "impl_b"}
\* Test sources are sets of line kinds:
\*   case          ordinary test lines
\*   fnf_malformed a line holding 'FileNotFoundError' and 'malformed'
\*   test_malformed a 'def test_...malformed...' function
\*   nonexistent   a line that mentions a 'nonexistent' file
\*   imports       the required import lines
GenTests == {{"case"}, {"case", "fnf_malformed"}, {"case", "test_malformed"},
             {"case", "nonexistent"}}
ErrOutputs == {"AssertionError", "FileNotFoundError"}
None == "None"

Range(s) == {s[i] : i \in DOMAIN s}

(***************************************************************************)
(* Python call binding: a call binds when every keyword it passes is a     *)
(* parameter of the callee; otherwise the call raises TypeError before the *)
(* body runs.                                                              *)
(***************************************************************************)
Binds(kwargs, params) == kwargs \subseteq params

\* def verify_tool(self, function_name, function_code, test_code)
VerifyToolParams == {"function_name", "function_code", "test_code"}
\* def search_tool(self, query, threshold=None)
SearchToolParams == {"query", "threshold"}

(***************************************************************************)
(* Capability registry                                                     *)
(***************************************************************************)
Registry == [tool_files |-> tool_files, test_files |-> test_files,
             agent_tools |-> agent_tools]

AddEnv == {"ok", "embed_raise", "upsert_empty"}

\* add_tool: both files are written first, then the embedding is generated,
\* then the metadata row is upserted; an empty upsert result raises.
AddTool(reg, name, code, tests, env) ==
    LET written == [reg EXCEPT !.tool_files[name] = code,
                               !.test_files[name] = tests]
    IN  IF env = "ok"
        THEN [reg |-> [written EXCEPT !.agent_tools = @ \cup {name}],
              raised |-> "none"]
        ELSE [reg |-> written, raised |-> "Exception"]

\* A lookup that reports a missing file but leaves the row in place.
GetToolByNameM(reg, name) ==
    IF name \notin reg.agent_tools \/ reg.tool_files[name] = NoFile
    THEN [reg |-> reg, tool |-> None]
    ELSE [reg |-> reg, tool |-> name]

\* get_tool_by_name: none when there is no row; when the row's file is
\* missing the row is deleted and none is returned.
GetToolByName(reg, name) ==
    IF name \notin reg.agent_tools
    THEN [reg |-> reg, tool |-> None]
    ELSE IF reg.tool_files[name] = NoFile
         THEN [reg |-> [reg EXCEPT !.agent_tools = @ \ {name}], tool |-> None]
         ELSE [reg |-> reg, tool |-> name]

\* What the embedding service and the nearest-neighbour RPC do for one
\* search: no row above the threshold, a failure, or the one row returned.
SearchEnv == {"miss", "raise"} \cup Names

\* search_tool(**kwargs): at most one row; a row whose file is missing is
\* deleted and none is returned.
SearchTool(reg, kwargs, env) ==
    CASE ~Binds(kwargs, SearchToolParams) ->
            [reg |-> reg, tool |-> None, raised |-> "TypeError"]
      [] env = "raise" ->
            [reg |-> reg, tool |-> None, raised |-> "Exception"]
      [] env \notin reg.agent_tools ->
            [reg |-> reg, tool |-> None, raised |-> "none"]
      [] reg.tool_files[env] = NoFile ->
            [reg |-> [reg EXCEPT !.agent_tools = @ \ {env}], tool |-> None,
             raised |-> "none"]
      [] OTHER ->
            [reg |-> reg, tool |-> env, raised |-> "none"]

\* Similarity scores and thresholds, in hundredths.
Scores == {0, 30, 40, 69, 70, 100}
\* Config.SIMILARITY_THRESHOLD (0.4)
SIMILARITY_THRESHOLD == 40
\* threshold=None of search_tool's signature
NoThreshold == 0 - 1
\* The thresholds callers pass: none, 0.0, 0.7.
Thresholds == {NoThreshold, 0, 70}

\* A defaulting that hands "no threshold" to the search as 0.
EffectiveThresholdM(threshold) ==
    IF threshold = NoThreshold THEN 0 ELSE threshold

\* threshold = threshold or Config.SIMILARITY_THRESHOLD (0.0 is falsy too)
EffectiveThreshold(threshold) ==
    IF threshold \in {NoThreshold, 0} THEN SIMILARITY_THRESHOLD ELSE threshold

\* The search_tools RPC of the durable store: the rows whose similarity to
\* the query is at least similarity_threshold, best first, at most
\* match_count of them (all the result lists it may return when scores tie).
RECURSIVE SearchToolsRpc(_, _, _, _)
SearchToolsRpc(rows, sims, similarity_threshold, match_count) ==
    LET above == {n \in rows : sims[n] >= similarity_threshold}
        best == {n \in above : \A m \in above : sims[m] <= sims[n]}
    IN  IF match_count = 0 \/ above = {}
        THEN {<<>>}
        ELSE UNION {{<<n>> \o t
                        : t \in SearchToolsRpc(rows \ {n}, sims,
                                               similarity_threshold,
                                               match_count - 1)}
                       : n \in best}

\* search_tool(query, threshold) on a registry whose rows have the
\* similarities sims to the query; embed_ok: the embedding call succeeded.
SearchToolOp ==
    /\ last.op = "idle"
    /\ UNCHANGED aux_vars
    /\ \E threshold \in Thresholds, sims \in [Names -> Scores],
          embed_ok \in BOOLEAN :
        \E data \in SearchToolsRpc(agent_tools, sims,
                                   EffectiveThreshold(threshold), 1) :
            \E s \in {SearchTool(Registry, {"query", "threshold"},
                                  IF ~embed_ok THEN "raise"
                                  ELSE IF data = <<>> THEN "miss"
                                  ELSE data[1])} :
                /\ agent_tools' = s.reg.agent_tools
                /\ last' = [op |-> "search_tool", threshold |-> threshold,
                            sims |-> sims, rows |-> Len(data),
                            tool |-> s.tool, raised |-> s.raised,
                            similarity_score |->
                                IF s.tool = None THEN 0 ELSE sims[s.tool]]
                /\ UNCHANGED <<tool_files, test_files, verified, add_calls>>

\* get_tool_by_name(name) called on the registry.
GetToolByNameOp ==
    /\ last.op = "idle"
    /\ UNCHANGED aux_vars
    /\ \E name \in Names :
        \E g \in {GetToolByName(Registry, name)} :
            /\ agent_tools' = g.reg.agent_tools
            /\ last' = [op |-> "get_tool_by_name", name |-> name,
                        tool |-> g.tool,
                        had_row |-> name \in agent_tools,
                        file_missing |-> tool_files[name] = NoFile]
            /\ UNCHANGED <<tool_files, test_files, verified, add_calls>>

\* add_tool(name, code, tests, docstring) called on the registry.
AddToolOp ==
    /\ last.op = "idle"
    /\ UNCHANGED aux_vars
    /\ \E name \in Names, env \in AddEnv :
        \E a \in {AddTool(Registry, name, "impl_a", {"case"}, env)} :
            /\ tool_files' = a.reg.tool_files
            /\ test_files' = a.reg.test_files
            /\ agent_tools' = a.reg.agent_tools
            /\ add_calls' = add_calls \cup {[name |-> name, code |-> "impl_a",
                                             tests |-> {"case"}]}
            /\ last' = [op |-> "add_tool", name |-> name, raised |-> a.raised]
            /\ UNCHANGED verified

(***************************************************************************)
(* seed_tools.py                                                           *)
(***************************************************************************)
\* tools_to_seed; the code_file/test_file of a seed are TOOLS_DIR files.
ToolsToSeed == <<"calculate_percentage", "celsius_to_fahrenheit">>

\* One iteration of the loop of seed_tools for tool `name`.
SeedOne(st, name, env) ==
    IF name \notin Names
    THEN st     \* no row, and open(code_file) raises: caught and reported
    ELSE LET g == GetToolByName(st.reg, name)
         IN  IF g.tool # None
             THEN [st EXCEPT !.reg = g.reg]                 \* already exists
             ELSE IF g.reg.tool_files[name] = NoFile \/ g.reg.test_files[name] = NoTests
                  THEN [st EXCEPT !.reg = g.reg]            \* open() raises
                  ELSE LET code == g.reg.tool_files[name]
                           tests == g.reg.test_files[name]
                           a == AddTool(g.reg, name, code, tests, env)
                       IN  [reg |-> a.reg,
                            adds |-> st.adds \cup {[name |-> name, code |-> code, tests |-> tests]}]

RECURSIVE SeedLoop(_, _, _)
SeedLoop(st, i, env) ==
    IF i > Len(ToolsToSeed) THEN st
    ELSE SeedLoop(SeedOne(st, ToolsToSeed[i], env), i + 1, env)

SeedTools ==
    /\ last.op = "idle"
    /\ UNCHANGED aux_vars
    /\ \E env \in AddEnv :
        LET st == SeedLoop([reg |-> Registry, adds |-> {}], 1, env)
        IN  /\ tool_files' = st.reg.tool_files
            /\ test_files' = st.reg.test_files
            /\ agent_tools' = st.reg.agent_tools
            /\ add_calls' = add_calls \cup st.adds
            /\ last' = [op |-> "seed_tools", added |-> st.adds]
            /\ UNCHANGED verified

(***************************************************************************)
(* Sandbox, as the synthesis engine calls it                               *)
(***************************************************************************)
\* Outcomes of a verify_tool call whose arguments bind: the tests pass, the
\* tests fail (or the container faults: success=False), or the call raises
\* (Docker unreachable while the image is looked up).
SandboxOutcomes == {"pass", "fail", "raise"}

\* verify_tool(**kwargs) with the environment's outcome `outcome`.
VerifyTool(kwargs, outcome) ==
    IF ~Binds(kwargs, VerifyToolParams) THEN "TypeError" ELSE outcome

(***************************************************************************)
(* Synthesis engine                                                        *)
(***************************************************************************)
\* The keywords synthesize_capability passes to sandbox.verify_tool.
SynthVerifyKwargs == {"function_name", "function_code", "test_code", "data_files"}

\* _validate_and_fix_tests: drops the FileNotFoundError/malformed lines and
\* prepends the required imports that are absent.
ValidateAndFixTests(tests) == (tests \ {"fnf_malformed"}) \cup {"imports"}

\* _apply_aggressive_test_fixes: drops the malformed test functions and, when
\* the sandbox output names FileNotFoundError, the lines on nonexistent files.
ApplyAggressiveTestFixes(tests, error_output) ==
    (tests \ {"test_malformed"})
        \ (IF error_output = "FileNotFoundError" THEN {"nonexistent"} ELSE {})

SynthSteps == <<"specification", "tests", "implementation", "verification", "registration">>

Emit(ctx, step, status) == [ctx EXCEPT !.events = Append(@, <<step, status>>)]

\* The except-branch of a phase: emit "failed" and return {success, error, step}.
AbortM(ctx, step) ==
    [Emit(ctx, step, "failed") EXCEPT
        !.result = [success |-> FALSE, error |-> "error", step |-> "unknown"]]
Abort(ctx, step) ==
    [Emit(ctx, step, "failed") EXCEPT
        !.result = [success |-> FALSE, error |-> "error", step |-> step]]

VerifyCall(ctx, tests, res) ==
    [name |-> ctx.name, code |-> ctx.impl, tests |-> tests, result |-> res]

\* Step 5: register the tool.
RegistrationPhase(ctx, env) ==
    LET c1 == Emit(ctx, "registration", "in_progress")
        a  == AddTool(c1.reg, c1.name, c1.impl, c1.tests, env.add)
        c2 == [c1 EXCEPT !.reg = a.reg,
                         !.adds = Append(@, [name |-> c1.name, code |-> c1.impl,
                                             tests |-> c1.tests])]
    IN  IF a.raised # "none"
        THEN Abort(c2, "registration")
        ELSE [Emit(c2, "registration", "complete") EXCEPT
                 !.result = [success |-> TRUE, tool_name |-> c2.name,
                             code |-> c2.impl, tests |-> c2.tests]]

\* The retry of step 4: one aggressive repair of the tests, one more run.
VerificationRetry(ctx, env) ==
    LET c1 == Emit(ctx, "verification_retry", "in_progress")
        fixed_tests == ApplyAggressiveTestFixes(c1.tests, env.output)
        r2 == VerifyTool(SynthVerifyKwargs, env.v2)
        c2 == [c1 EXCEPT !.repairs = @ + 1,
                         !.verify_calls = Append(@, VerifyCall(c1, fixed_tests, r2))]
    IN  IF r2 = "pass"
        THEN RegistrationPhase(
                 Emit([c2 EXCEPT !.tests = fixed_tests], "verification", "complete"), env)
        ELSE Abort(c2, "verification")

\* A verification step that keeps retrying whatever the first run did.
VerificationPhaseM(ctx, env) ==
    LET c1 == Emit(ctx, "verification", "in_progress")
        tests == ValidateAndFixTests(c1.tests)
        r1 == VerifyTool(SynthVerifyKwargs, env.v1)
        r2 == VerifyTool(SynthVerifyKwargs, env.v2)
        c2 == [c1 EXCEPT !.tests = tests,
                         !.verify_calls = Append(@, VerifyCall(c1, tests, r1))]
        c3 == [c2 EXCEPT !.verify_calls = Append(@, VerifyCall(c1, tests, r2))]
    IN  IF r1 = "pass"
        THEN RegistrationPhase(Emit(c2, "verification", "complete"), env)
        ELSE VerificationRetry(c3, env)

\* Step 4: verify in the sandbox.
VerificationPhase(ctx, env) ==
    LET c1 == Emit(ctx, "verification", "in_progress")
        tests == ValidateAndFixTests(c1.tests)
        r1 == VerifyTool(SynthVerifyKwargs, env.v1)
        c2 == [c1 EXCEPT !.tests = tests,
                         !.verify_calls = Append(@, VerifyCall(c1, tests, r1))]
    IN  CASE r1 = "pass" -> RegistrationPhase(Emit(c2, "verification", "complete"), env)
          [] r1 = "fail" -> VerificationRetry(c2, env)
          [] OTHER       -> Abort(c2, "verification")

\* A call of the code-generation client.  Whatever goes wrong inside it (a
\* timeout, an API error, an unparsable answer) leaves it as one exception.
GenCall(ctx, method) == [ctx EXCEPT !.gen_calls = Append(@, method)]

\* Step 3: generate the implementation.
ImplementationPhase(ctx, env) ==
    LET c1 == GenCall(Emit(ctx, "implementation", "in_progress"), "generate_implementation")
    IN  IF env.fail_at = "implementation"
        THEN Abort(c1, "implementation")
        ELSE VerificationPhase(
                 Emit([c1 EXCEPT !.impl = env.impl], "implementation", "complete"), env)

\* Step 2: generate the tests.
TestsPhase(ctx, env) ==
    LET c1 == GenCall(Emit(ctx, "tests", "in_progress"), "generate_tests")
    IN  IF env.fail_at = "tests"
        THEN Abort(c1, "tests")
        ELSE ImplementationPhase(
                 Emit([c1 EXCEPT !.tests = env.tests], "tests", "complete"), env)

\* Step 1: generate the specification.
SpecificationPhase(ctx, env) ==
    LET c1 == GenCall(Emit(ctx, "specification", "in_progress"), "generate_spec")
    IN  IF env.fail_at = "specification"
        THEN Abort(c1, "specification")
        ELSE TestsPhase(
                 Emit([c1 EXCEPT !.name = env.name], "specification", "complete"), env)

\* What the code-generation service and the sandbox do during one synthesis.
SynthEnv ==
    [fail_at : {"none", "specification", "tests", "implementation"},
     name : Names, tests : GenTests, impl : ImplSrc,
     v1 : SandboxOutcomes, v2 : SandboxOutcomes, output : ErrOutputs,
     add : AddEnv]

\* The environment does its part: every generation call returns, the
\* generated tests pass in the sandbox (at once, or after the repair) and the
\* registry stores the row.
Cooperative(env) ==
    /\ env.fail_at = "none"
    /\ env.v1 = "pass" \/ (env.v1 = "fail" /\ env.v2 = "pass")
    /\ env.add = "ok"

\* synthesize_capability(user_prompt, callback)
SynthesizeCapability(reg, env) ==
    SpecificationPhase(
        [reg |-> reg, name |-> None, tests |-> {}, impl |-> None,
         events |-> <<>>, gen_calls |-> <<>>, verify_calls |-> <<>>, repairs |-> 0,
         adds |-> <<>>,
         result |-> [success |-> FALSE]], env)

\* The verification calls of a synthesis that returned success.
Passed(calls) ==
    {[name |-> c.name, code |-> c.code, tests |-> c.tests] :
        c \in {d \in Range(calls) : d.result = "pass"}}

SynthesizeCapabilityOp ==
    /\ last.op = "idle"
    /\ UNCHANGED aux_vars
    /\ \E env \in SynthEnv :
        LET c == SynthesizeCapability(Registry, env)
        IN  /\ tool_files' = c.reg.tool_files
            /\ test_files' = c.reg.test_files
            /\ agent_tools' = c.reg.agent_tools
            /\ verified' = verified \cup Passed(c.verify_calls)
            /\ add_calls' = add_calls \cup Range(c.adds)
            /\ last' = [op |-> "synthesize_capability", result |-> c.result,
                        events |-> c.events, verify_calls |-> c.verify_calls,
                        repairs |-> c.repairs, adds |-> c.adds,
                        rows_before |-> agent_tools,
                        cooperative |-> Cooperative(env),
                        gen_calls |-> c.gen_calls]

(***************************************************************************)
(* Tool executor                                                           *)
(***************************************************************************)
\* What happens inside one execute_tool call:
\*   ok           the arguments are complete and the tool returns
\*   load_fail    load_tool_function raises
\*   extract_fail extract_arguments raises (LLM call or JSON parse failed)
\*   null_arg     extract_arguments left an argument null (unresolved)
\*   missing_arg  the arguments lack a required parameter of the tool
\*   extra_arg    the arguments hold a keyword the tool does not take
\*   tool_raises  the tool itself raises
AttemptKinds == {"ok", "load_fail", "extract_fail", "null_arg", "missing_arg",
                 "extra_arg", "tool_raises"}

\* The exception raised inside the try block of execute_tool.
RaisedInTry(kind) ==
    CASE kind = "ok"          -> "none"
      [] kind = "null_arg"    -> "ValueError"          \* raise ValueError("Argument mismatch...")
      [] kind = "missing_arg" -> "TypeError_missing"   \* "missing 1 required positional argument"
      [] kind = "extra_arg"   -> "TypeError"           \* "got an unexpected keyword argument"
      [] OTHER                -> "Exception"

\* execute_tool: the exception that leaves it ("none": it returns the result).
\* except TypeError: a 'missing' message becomes ValueError, others re-raise;
\* except Exception: everything else is wrapped in a plain Exception.
ExecuteTool(kind) ==
    LET e == RaisedInTry(kind)
    IN  CASE e = "none"              -> "none"
          [] e = "TypeError_missing" -> "ValueError"
          [] e = "TypeError"         -> "TypeError"
          [] OTHER                   -> "Exception"

\* The loop of execute_with_retry from attempt index `attempt` (0-based);
\* kinds[attempt + 1] is what happens in that attempt, trace the attempts made.
RECURSIVE RetryLoop(_, _, _, _)
RetryLoop(kinds, max_retries, attempt, trace) ==
    IF attempt >= max_retries + 1
    THEN [result |-> [success |-> FALSE, error_type |-> "ExecutionError",
                      attempts |-> max_retries + 1],
          trace |-> trace]
    ELSE LET kind == kinds[attempt + 1]
             t == Append(trace, kind)
             e == ExecuteTool(kind)
         IN  CASE e = "none" ->
                    [result |-> [success |-> TRUE, attempts |-> attempt + 1], trace |-> t]
               [] e = "ValueError" ->
                    [result |-> [success |-> FALSE, error_type |-> "ArgumentError",
                                 attempts |-> attempt + 1],
                     trace |-> t]
               [] OTHER -> RetryLoop(kinds, max_retries, attempt + 1, t)

RECURSIVE RetryLoopM(_, _, _, _)
RetryLoopM(kinds, max_retries, attempt, trace) ==
    IF attempt > max_retries + 1
    THEN [result |-> [success |-> FALSE, error_type |-> "ExecutionError",
                      attempts |-> max_retries + 1],
          trace |-> trace]
    ELSE LET kind == kinds[attempt + 1]
             t == Append(trace, kind)
             e == ExecuteTool(kind)
         IN  CASE e = "none" ->
                    [result |-> [success |-> TRUE, attempts |-> attempt + 1], trace |-> t]
               [] e = "ValueError" ->
                    [result |-> [success |-> FALSE, error_type |-> "ArgumentError",
                                 attempts |-> attempt + 1],
                     trace |-> t]
               [] OTHER -> RetryLoopM(kinds, max_retries, attempt + 1, t)

\* execute_with_retry(tool_info, user_prompt, max_retries)
ExecuteWithRetryM(kinds, max_retries) == RetryLoopM(kinds, max_retries, 0, <<>>)
ExecuteWithRetry(kinds, max_retries) == RetryLoop(kinds, max_retries, 0, <<>>)

\* Per-attempt behaviours for one execute_with_retry call.
AttemptSeqs(n) == [1..n -> AttemptKinds]

\* A caller invokes execute_with_retry, with max_retries or with its default.
ExecuteWithRetryOp ==
    /\ last.op = "idle"
    /\ UNCHANGED aux_vars
    /\ \E mr \in 0..MaxRetriesBound, dflt \in BOOLEAN :
        LET m == IF dflt THEN DefaultMaxRetries ELSE mr
        IN  \E kinds \in AttemptSeqs(m + 2) :
               LET r == ExecuteWithRetry(kinds, m)
               IN  last' = [op |-> "execute_with_retry", max_retries |-> m,
                            defaulted |-> dflt, kinds |-> kinds,
                            result |-> r.result, trace |-> r.trace]
    /\ UNCHANGED <<tool_files, test_files, agent_tools, verified, add_calls>>

(***************************************************************************)
(* Composition planner                                                     *)
(***************************************************************************)
\* What happens in one step of a plan: the search, then (when a tool was
\* found) argument preparation and execute_tool.
\* ("context_unparsable": the LLM's answer to the extraction with the previous
\* result is no JSON, and the standard extraction is used instead.)
StepKinds == {"ok", "null_arg", "extract_fail", "tool_raises", "context_unparsable"}
StepEnvs ==
    {[search |-> s, kind |-> "ok"] : s \in {"miss", "raise"}}
        \cup [search : Names, kind : StepKinds]

\* Sub-task lists of length n: the tasks are independent (depends_on null)
\* or form a chain (each depends on the step before); the last sub-task may
\* lack its 'task' key (task = FALSE).
SubTaskLists(n) ==
    {[i \in 1..n |-> [depends_on |-> IF chain THEN i - 1 ELSE 0,
                      task |-> (i < n \/ keyed)]]
        : chain \in BOOLEAN, keyed \in BOOLEAN}

\* _prepare_arguments: the previous result the arguments are drawn from
\* (0: none, the standard extraction from the sub-task text).
PrepareArguments(sub_task, previous_results, kind) ==
    IF /\ sub_task.depends_on > 0
       /\ sub_task.depends_on <= Len(previous_results)
       /\ kind # "context_unparsable"
    THEN sub_task.depends_on ELSE 0

\* The result execute_tool returns in step idx.
Output(tool, idx, uses) == [step |-> idx, tool |-> tool, uses |-> uses]

\* The dictionary returned from the except-branch of a step.
StepFailed(st, idx) ==
    [success |-> FALSE, error |-> "step_failed", step_failed |-> idx,
     partial_results |-> st.results, tool_sequence |-> st.tool_sequence]

\* A step that silently skips a sub-task for which no tool is found.
WorkflowStepM(st, sub_tasks, envs, idx) ==
    LET e  == envs[idx]
        s  == SearchTool(st.reg, {"query"}, e.search)
        s1 == [st EXCEPT !.reg = s.reg,
                         !.searches = Append(@, IF s.raised # "none" THEN "raise" ELSE s.tool)]
        x  == IF e.kind = "extract_fail" THEN "Exception" ELSE ExecuteTool(e.kind)
    IN  CASE s.raised # "none" ->
                [s1 EXCEPT !.done = TRUE, !.result = StepFailed(st, idx)]
          [] s.tool = None -> s1
          [] x # "none" ->
                [s1 EXCEPT !.done = TRUE, !.result = StepFailed(st, idx)]
          [] OTHER ->
                [s1 EXCEPT !.results = Append(@, Output(s.tool, idx,
                                PrepareArguments(sub_tasks[idx], st.results, e.kind))),
                           !.tool_sequence = Append(@, s.tool)]

\* One iteration of the loop of execute_workflow (step number idx).
WorkflowStep(st, sub_tasks, envs, idx) ==
    LET e  == envs[idx]
        s  == SearchTool(st.reg, {"query"}, e.search)
        s1 == [st EXCEPT !.reg = s.reg,
                         !.searches = Append(@, IF s.raised # "none" THEN "raise" ELSE s.tool)]
        \* _prepare_arguments, then execute_tool with these arguments
        x  == IF e.kind = "extract_fail" THEN "Exception" ELSE ExecuteTool(e.kind)
    IN  CASE s.raised # "none" ->
                [s1 EXCEPT !.done = TRUE, !.result = StepFailed(st, idx)]
          [] s.tool = None ->
                [s1 EXCEPT !.done = TRUE,
                           !.result = [success |-> FALSE, error |-> "no_tool_found",
                                       step_failed |-> idx, needs_synthesis |-> TRUE,
                                       partial_results |-> st.results]]
          [] x # "none" ->
                [s1 EXCEPT !.done = TRUE, !.result = StepFailed(st, idx)]
          [] OTHER ->
                [s1 EXCEPT !.results = Append(@, Output(s.tool, idx,
                                PrepareArguments(sub_tasks[idx], st.results, e.kind))),
                           !.tool_sequence = Append(@, s.tool)]

RECURSIVE WorkflowLoop(_, _, _, _)
WorkflowLoop(st, sub_tasks, envs, idx) ==
    IF st.done THEN st
    ELSE IF idx > Len(sub_tasks)
         THEN [st EXCEPT !.done = TRUE,
                         !.result = [success |-> TRUE, results |-> st.results,
                                     tool_sequence |-> st.tool_sequence,
                                     final_result |->
                                         IF st.results = <<>> THEN None
                                         ELSE st.results[Len(st.results)]]]
         ELSE WorkflowLoop(WorkflowStep(st, sub_tasks, envs, idx), sub_tasks, envs, idx + 1)

\* execute_workflow(sub_tasks, user_prompt, callback); the "workflow_start"
\* event reads task['task'] of every sub-task before the loop starts.
ExecuteWorkflow(reg, sub_tasks, envs) ==
    LET st0 == [reg |-> reg, results |-> <<>>, tool_sequence |-> <<>>,
                searches |-> <<>>, done |-> FALSE, raised |-> "none",
                result |-> [success |-> FALSE]]
    IN  IF \E i \in DOMAIN sub_tasks : ~sub_tasks[i].task
        THEN [st0 EXCEPT !.done = TRUE, !.raised = "KeyError"]
        ELSE WorkflowLoop(st0, sub_tasks, envs, 1)

ExecuteWorkflowOp ==
    /\ last.op = "idle"
    /\ UNCHANGED aux_vars
    /\ \E n \in 0..MaxSteps :
        \E sub_tasks \in SubTaskLists(n), envs \in [1..n -> StepEnvs] :
            LET w == ExecuteWorkflow(Registry, sub_tasks, envs)
            IN  /\ tool_files' = w.reg.tool_files
                /\ test_files' = w.reg.test_files
                /\ agent_tools' = w.reg.agent_tools
                /\ last' = [op |-> "execute_workflow", sub_tasks |-> sub_tasks,
                            result |-> w.result, raised |-> w.raised,
                            searches |-> w.searches,
                            tool_sequence |-> w.tool_sequence]
    /\ UNCHANGED <<verified, add_calls>>

\* Sub-task lists as the planner's LLM may return them: depends_on names any
\* step of the list, earlier or later, or none.
AnySubTaskLists(n) == [1..n -> [depends_on : 0..n, task : {TRUE}]]

\* execute_workflow called on any sub-task list.
ExecuteAnyWorkflowOp ==
    /\ last.op = "idle"
    /\ UNCHANGED aux_vars
    /\ \E n \in 0..MaxPlanSteps :
        \E sub_tasks \in AnySubTaskLists(n), envs \in [1..n -> StepEnvs] :
            \E w \in {ExecuteWorkflow(Registry, sub_tasks, envs)} :
                /\ tool_files' = w.reg.tool_files
                /\ test_files' = w.reg.test_files
                /\ agent_tools' = w.reg.agent_tools
                /\ last' = [op |-> "execute_workflow", sub_tasks |-> sub_tasks,
                            result |-> w.result, raised |-> w.raised,
                            searches |-> w.searches,
                            tool_sequence |-> w.tool_sequence,
                            kinds |-> [i \in 1..n |-> envs[i].kind]]
    /\ UNCHANGED <<verified, add_calls>>

\* The steps of a stored pattern: what happens when each tool is run.
PatternKinds == {"ok", "extract_fail", "tool_raises"}

RECURSIVE PatternLoop(_, _, _, _)
PatternLoop(st, tool_sequence, kinds, idx) ==
    IF idx > Len(tool_sequence)
    THEN [st EXCEPT !.result = [success |-> TRUE, results |-> st.results,
                                tool_sequence |-> tool_sequence,
                                final_result |->
                                    IF st.results = <<>> THEN None
                                    ELSE st.results[Len(st.results)]]]
    ELSE LET g == GetToolByName(st.reg, tool_sequence[idx])
             x == IF kinds[idx] = "extract_fail" THEN "Exception"
                  ELSE ExecuteTool(kinds[idx])
             failed == [success |-> FALSE,
                        error |-> IF g.tool = None THEN "not_found"
                                  ELSE "pattern_failed",
                        step_failed |-> idx, partial_results |-> st.results]
         IN  IF g.tool = None \/ x # "none"
             THEN [st EXCEPT !.reg = g.reg, !.result = failed]
             ELSE PatternLoop([st EXCEPT !.reg = g.reg,
                                         !.results = Append(@, Output(g.tool, idx, idx - 1))],
                              tool_sequence, kinds, idx + 1)

\* execute_pattern(pattern, user_prompt, callback)
ExecutePattern(reg, tool_sequence, kinds) ==
    PatternLoop([reg |-> reg, results |-> <<>>, result |-> [success |-> FALSE]],
                tool_sequence, kinds, 1)

(***************************************************************************)
(* Query planner                                                           *)
(***************************************************************************)
NoSubTasks == <<>>
PatternSeqs == UNION {[1..n -> Names] : n \in 0..2}

\* Similarities are percentages; NoMatch stands for a lookup that returned
\* None (nothing above the lookup's own threshold, or the lookup failed).
NoMatch == 0 - 1
HighSimilarityBar == 70
MatchScores == {NoMatch, 60, 70, 71}

\* What the planner's lookups and its LLM analysis return for one request:
\*   composite / pattern : the similarity of the match found, or NoMatch
\*   analysis            : simple, composition, sequential (the last two are
\*                         complex), or malformed (JSON without the keys)
\*   single, score_high  : the search_tool row and whether it scores above 0.6
PlanEnvs ==
    [composite : {71}, cname : Names, pattern : {NoMatch}, pseq : {<<>>},
     analysis : {"simple"}, sub_tasks : {NoSubTasks}, single : {"miss"},
     score_high : {FALSE}]
    \cup
    [composite : {NoMatch}, cname : {None}, pattern : {71}, pseq : PatternSeqs,
     analysis : {"simple"}, sub_tasks : {NoSubTasks}, single : {"miss"},
     score_high : {FALSE}]
    \cup
    [composite : {NoMatch}, cname : {None}, pattern : {NoMatch}, pseq : {<<>>},
     analysis : {"simple", "malformed"}, sub_tasks : {NoSubTasks},
     single : {"miss"}, score_high : {FALSE}]
    \cup
    [composite : {NoMatch}, cname : {None}, pattern : {NoMatch}, pseq : {<<>>},
     analysis : {"composition", "sequential"},
     sub_tasks : UNION {SubTaskLists(n) : n \in 0..MaxPlanSteps},
     single : {"miss", "raise", "reverse_string"}, score_high : BOOLEAN]

\* A planner that looks for a workflow pattern before a composite tool.
PlanExecutionM(reg, p) ==
    LET s == SearchTool(reg, {"query"}, p.single)
        plan(r, strategy) ==
            [reg |-> r, raised |-> "none", strategy |-> strategy,
             composite_tool |-> p.cname, pattern |-> p.pseq,
             sub_tasks |-> p.sub_tasks]
        fault(r, exc) ==
            [reg |-> r, raised |-> exc, strategy |-> None,
             composite_tool |-> None, pattern |-> <<>>, sub_tasks |-> NoSubTasks]
    IN  CASE p.pattern > HighSimilarityBar   -> plan(reg, "workflow_pattern")
          [] p.composite > HighSimilarityBar -> plan(reg, "composite_tool")
          [] p.analysis = "malformed" -> fault(reg, "KeyError")
          [] p.analysis = "simple"   -> plan(reg, "single_tool")
          [] s.raised # "none"       -> fault(s.reg, s.raised)
          [] s.tool # None /\ p.score_high -> plan(s.reg, "single_tool")
          [] p.analysis = "composition" -> plan(s.reg, "multi_tool_composition")
          [] OTHER                   -> plan(s.reg, "multi_tool_sequential")

\* plan_execution(user_prompt): the plan returned, or the exception raised.
PlanExecution(reg, p) ==
    LET s == SearchTool(reg, {"query"}, p.single)
        plan(r, strategy) ==
            [reg |-> r, raised |-> "none", strategy |-> strategy,
             composite_tool |-> p.cname, pattern |-> p.pseq,
             sub_tasks |-> p.sub_tasks]
        fault(r, exc) ==
            [reg |-> r, raised |-> exc, strategy |-> None,
             composite_tool |-> None, pattern |-> <<>>, sub_tasks |-> NoSubTasks]
    IN  CASE p.composite > HighSimilarityBar -> plan(reg, "composite_tool")
          [] p.pattern > HighSimilarityBar   -> plan(reg, "workflow_pattern")
          [] p.analysis = "malformed" -> fault(reg, "KeyError")
          [] p.analysis = "simple"   -> plan(reg, "single_tool")
          [] s.raised # "none"       -> fault(s.reg, s.raised)
          [] s.tool # None /\ p.score_high -> plan(s.reg, "single_tool")
          [] p.analysis = "composition" -> plan(s.reg, "multi_tool_composition")
          [] OTHER                   -> plan(s.reg, "multi_tool_sequential")

\* Every combination of lookup results and analyses for one request.
PlannerEnvs ==
    [composite : MatchScores, cname : {"calculate_percentage"},
     pattern : MatchScores, pseq : {<<"reverse_string", "calculate_percentage">>},
     analysis : {"simple", "malformed", "composition", "sequential"},
     sub_tasks : SubTaskLists(MaxPlanSteps),
     single : {"miss", "raise", "reverse_string"}, score_high : BOOLEAN]

\* A caller asks the planner for the plan of a request.
PlanExecutionOp ==
    /\ last.op = "idle"
    /\ UNCHANGED aux_vars
    /\ \E p \in PlannerEnvs :
          \E pl \in {PlanExecution(Registry, p)} :
              /\ tool_files' = pl.reg.tool_files
              /\ test_files' = pl.reg.test_files
              /\ agent_tools' = pl.reg.agent_tools
              /\ last' = [op |-> "plan_execution", env |-> p, raised |-> pl.raised,
                          strategy |-> pl.strategy, composite_tool |-> pl.composite_tool,
                          pattern |-> pl.pattern, sub_tasks |-> pl.sub_tasks]
    /\ UNCHANGED <<verified, add_calls>>

\* cleanup_orphaned_tools: the select may raise; a row whose file is missing
\* is deleted, unless the delete fails (caught, the row stays).
CleanupEnv == {"ok", "select_raise", "delete_fails"}
CleanupOrphanedTools(reg, env) ==
    CASE env = "select_raise" -> [reg |-> reg, raised |-> "Exception"]
      [] env = "delete_fails" -> [reg |-> reg, raised |-> "none"]
      [] OTHER ->
            [reg |-> [reg EXCEPT !.agent_tools =
                          {n \in @ : reg.tool_files[n] # NoFile}],
             raised |-> "none"]

(***************************************************************************)
(* Orchestrator                                                            *)
(*                                                                         *)
(* A handler of the orchestrator is the set of outcomes it can have from a *)
(* given bookkeeping record `oc`: one outcome per behaviour of the         *)
(* collaborators it consults on the way.                                   *)
(***************************************************************************)
\* The keywords _execute_single_tool passes to registry.search_tool.
SingleSearchKwargs == {"query", "threshold", "rerank"}
\* The keywords the force_synthesis branch passes to registry.search_tool.
ForceSearchKwargs == {"query", "threshold"}

\* Behaviours of code generation, sandbox and registry during a synthesis
\* made for a request.
OrchSynthEnv ==
    [fail_at : {"none", "specification"}, name : {"reverse_string"},
     tests : {{"case"}}, impl : {"impl_a"}, v1 : SandboxOutcomes,
     v2 : {"pass", "fail"}, output : {"AssertionError"},
     add : {"ok", "embed_raise"}]

OrchStepEnvs ==
    {[search |-> s, kind |-> "ok"] : s \in {"miss", "raise"}}
        \cup [search : Names, kind : {"ok", "tool_raises"}]

Returns(oc, result) == [oc |-> oc, result |-> result, raised |-> "none"]
Raises(oc, exc) == [oc |-> oc, result |-> None, raised |-> exc]
EndSession(oc) == [oc EXCEPT !.ended = TRUE]
\* Bookkeeping: an execution failed for a reason other than a missing tool.
ToolFailed(oc) == [oc EXCEPT !.tool_failed = TRUE]

\* synthesis_engine.synthesize_capability(...) called for a request.
Synthesize(oc) ==
    {[oc |-> [oc EXCEPT !.reg = c.ctx.reg,
                        !.verified = @ \cup Passed(c.ctx.verify_calls),
                        !.add_calls = @ \cup Range(c.ctx.adds),
                        !.synth_calls =
                            Append(@, [env |-> c.env, result |-> c.ctx.result,
                                       after_tool_failure |-> oc.tool_failed])],
      result |-> c.ctx.result]
        : c \in {[env |-> e, ctx |-> SynthesizeCapability(oc.reg, e)]
                    : e \in OrchSynthEnv}}

\* composition_planner.execute_workflow(sub_tasks, ...) called for a request.
RunWorkflow(oc, sub_tasks) ==
    {[oc |-> [oc EXCEPT !.reg = w.reg,
                        !.tool_failed =
                            @ \/ (/\ w.raised = "none"
                                  /\ ~w.result.success
                                  /\ "needs_synthesis" \notin DOMAIN w.result),
                        !.workflow_runs =
                            IF w.raised = "none" THEN Append(@, w.result) ELSE @],
      result |-> w.result, raised |-> w.raised]
        : w \in {ExecuteWorkflow(oc.reg, sub_tasks, envs)
                    : envs \in [1..Len(sub_tasks) -> OrchStepEnvs]}}

\* executor.execute_with_retry(tool_info, user_prompt) called for a request:
\* the results it can return (a tool_info of None cannot be loaded).
RunWithRetry(tool) ==
    {ExecuteWithRetry(kinds, DefaultMaxRetries).result
        : kinds \in IF tool = None
                    THEN {[i \in 1..(DefaultMaxRetries + 1) |-> "load_fail"]}
                    ELSE AttemptSeqs(DefaultMaxRetries + 1)}

\* "Synthesis successful - now execute the new tool" of _execute_single_tool.
RunSynthesized(oc, tool_name) ==
    UNION {{IF ~r.success
            THEN Returns([oc EXCEPT !.reg = g.reg],
                         [success |-> FALSE, response |-> "error_text",
                          error |-> r.error_type, tool_name |-> tool_name,
                          synthesized |-> TRUE])
            ELSE Returns([oc EXCEPT !.reg = g.reg],
                         [success |-> TRUE, response |-> "tool_result",
                          tool_name |-> tool_name, tool_result |-> "tool_result",
                          synthesized |-> TRUE])
              : r \in RunWithRetry(g.tool)}
           : g \in {GetToolByName(oc.reg, tool_name)}}

\* Step 2b of _execute_single_tool: synthesis mode.
SynthesisMode(oc) ==
    UNION {IF ~sy.result.success
           THEN {Returns(sy.oc, [success |-> FALSE, response |-> "error_text",
                                 error |-> "error", synthesis_failed |-> TRUE])}
           ELSE RunSynthesized(sy.oc, sy.result.tool_name)
           : sy \in Synthesize(oc)}

\* Step 2a of _execute_single_tool: the tool that was found is executed.
\* pre: what argument extraction and the cache lookup do before the run.
RunFound(oc, tool, pre) ==
    CASE pre = "raise" -> {Raises(oc, "Exception")}
      [] pre = "cache_hit" ->
            {Returns(EndSession(oc),
                     [success |-> TRUE, result |-> "cached_result",
                      response |-> "cached_result", tool_name |-> tool,
                      cached |-> TRUE, execution_time |-> 0])}
      [] OTHER ->
            UNION {CASE r.success ->
                          {Returns(EndSession(oc),
                                   [success |-> TRUE, response |-> "tool_result",
                                    tool_name |-> tool, tool_result |-> "tool_result",
                                    synthesized |-> FALSE])}
                     [] r.error_type = "ArgumentError" -> SynthesisMode(oc)
                     [] OTHER ->
                          {Returns(EndSession(ToolFailed(oc)),
                                   [success |-> FALSE, response |-> "error_text",
                                    error |-> r.error_type, tool_name |-> tool])}
                   : r \in RunWithRetry(tool)}

\* The try block of _execute_single_tool.
SingleToolBody(oc) ==
    UNION {CASE x.s.raised # "none" -> {Raises(x.oc, x.s.raised)}
             [] x.s.tool = None -> SynthesisMode(x.oc)
             [] OTHER -> UNION {RunFound(x.oc, x.s.tool, pre)
                                   : pre \in {"ok", "raise", "cache_hit"}}
           : x \in UNION {{[s |-> s,
                            oc |-> [oc EXCEPT !.reg = s.reg, !.search_env = e]]
                              : s \in {SearchTool(oc.reg, SingleSearchKwargs, e)}}
                          : e \in SearchEnv}}

\* _execute_single_tool(user_prompt, emit, start_time, callback)
ExecuteSingleTool(oc) ==
    {IF r.raised # "none"
     THEN Returns(EndSession(r.oc),
                  [success |-> FALSE, response |-> "error_text", error |-> r.raised])
     ELSE r
       : r \in SingleToolBody(oc)}

\* _execute_composite_tool(composite_tool, ...)
ExecuteCompositeTool(oc, composite_tool) ==
    UNION {IF g.tool = None
           THEN ExecuteSingleTool([oc EXCEPT !.reg = g.reg])
           ELSE UNION {IF r.success
                       THEN {Returns(EndSession(oc),
                                     [success |-> TRUE, response |-> "tool_result",
                                      tool_name |-> composite_tool,
                                      tool_result |-> "tool_result",
                                      used_composite |-> TRUE])}
                       ELSE ExecuteSingleTool(ToolFailed(oc))
                       : r \in RunWithRetry(g.tool)}
           : g \in {GetToolByName(oc.reg, composite_tool)}}

\* _execute_workflow_pattern(pattern, ...)
ExecuteWorkflowPattern(oc, pattern) ==
    UNION {IF x.result.success
           THEN {Returns(EndSession([oc EXCEPT !.reg = x.reg]),
                         [success |-> TRUE, response |-> "final_result",
                          tool_sequence |-> x.result.tool_sequence,
                          tool_result |-> x.result.final_result,
                          used_pattern |-> TRUE])}
           ELSE ExecuteSingleTool(
                    IF x.result.error = "pattern_failed"
                    THEN ToolFailed([oc EXCEPT !.reg = x.reg])
                    ELSE [oc EXCEPT !.reg = x.reg])
           : x \in {ExecutePattern(oc.reg, pattern, kinds)
                       : kinds \in [1..Len(pattern) -> PatternKinds]}}

\* final_response = str(...): the value the response text is rendered from.
RespondsWith(oc, value) == [oc EXCEPT !.response_from = <<value>>]

\* A handler that answers with the output of the first step.
WorkflowDoneM(w, retried) ==
    LET first == IF w.result.results = <<>> THEN None ELSE w.result.results[1]
    IN  Returns(EndSession(RespondsWith(w.oc, first)),
                [success |-> TRUE, response |-> "final_result",
                 tool_sequence |-> w.result.tool_sequence,
                 tool_result |-> first, multi_tool |-> TRUE])

\* The dictionary _execute_multi_tool_workflow returns for a workflow that
\* ran to its end, and the one it returns for a failure.
WorkflowDone(w, retried) ==
    Returns(EndSession(RespondsWith(w.oc, w.result.final_result)),
            IF retried
            THEN [success |-> TRUE, response |-> "final_result",
                  tool_sequence |-> w.result.tool_sequence,
                  tool_result |-> w.result.final_result,
                  multi_tool |-> TRUE, synthesized_during_workflow |-> TRUE]
            ELSE [success |-> TRUE, response |-> "final_result",
                  tool_sequence |-> w.result.tool_sequence,
                  tool_result |-> w.result.final_result,
                  multi_tool |-> TRUE])
WorkflowFailed(oc) ==
    Returns(oc, [success |-> FALSE, response |-> "error_text", error |-> "error"])

\* A synthesis step that tries the synthesis again when it failed.
AfterSynthesisM(sy, sub_tasks) ==
    IF ~sy.result.success
    THEN {WorkflowFailed(sz.oc) : sz \in Synthesize(sy.oc)}
    ELSE {IF w2.result.success THEN WorkflowDone(w2, TRUE) ELSE WorkflowFailed(w2.oc)
            : w2 \in RunWorkflow(sy.oc, sub_tasks)}

\* _execute_multi_tool_workflow after the synthesis `sy` of the missing tool:
\* a failed synthesis is returned, a successful one retries the workflow.
AfterSynthesis(sy, sub_tasks) ==
    IF ~sy.result.success
    THEN {WorkflowFailed(sy.oc)}
    ELSE {IF w2.result.success THEN WorkflowDone(w2, TRUE) ELSE WorkflowFailed(w2.oc)
            : w2 \in RunWorkflow(sy.oc, sub_tasks)}

\* A workflow handler that synthesizes after any failed workflow run.
ExecuteMultiToolWorkflowM(oc, sub_tasks) ==
    UNION {CASE w1.raised # "none" -> {Raises(w1.oc, w1.raised)}
             [] w1.result.success -> {WorkflowDone(w1, FALSE)}
             [] OTHER -> UNION {AfterSynthesis(sy, sub_tasks) : sy \in Synthesize(w1.oc)}
           : w1 \in RunWorkflow(oc, sub_tasks)}

\* _execute_multi_tool_workflow(execution_plan, ...)
ExecuteMultiToolWorkflow(oc, sub_tasks) ==
    UNION {CASE w1.raised # "none" -> {Raises(w1.oc, w1.raised)}
             [] w1.result.success -> {WorkflowDone(w1, FALSE)}
             [] "needs_synthesis" \notin DOMAIN w1.result -> {WorkflowFailed(w1.oc)}
             [] OTHER -> UNION {AfterSynthesis(sy, sub_tasks) : sy \in Synthesize(w1.oc)}
           : w1 \in RunWorkflow(oc, sub_tasks)}

\* The force_synthesis branch of process_request, after the similar tool
\* was executed with result r (or was not found).
ForceCreate(oc) ==
    UNION {IF ~sy.result.success
           THEN {Returns(sy.oc, [success |-> FALSE, response |-> "error_text",
                                 error |-> "error", synthesis_failed |-> TRUE])}
           ELSE {IF ~x.result.success /\ x.result.error = "ArgumentError"
                 THEN Returns(x.oc, [success |-> TRUE, response |-> "created",
                                     tool_name |-> sy.result.tool_name,
                                     synthesized |-> TRUE,
                                     execution_skipped |-> TRUE])
                 ELSE x
                   : x \in RunSynthesized(sy.oc, sy.result.tool_name)}
           : sy \in Synthesize(oc)}

\* The force_synthesis branch of process_request.
ForceSynthesis(oc) ==
    UNION {CASE s.raised # "none" -> {Raises([oc EXCEPT !.reg = s.reg], s.raised)}
             [] s.tool = None -> ForceCreate([oc EXCEPT !.reg = s.reg])
             [] OTHER ->
                  UNION {IF r.success
                         THEN {Returns([oc EXCEPT !.reg = s.reg],
                                       [success |-> TRUE, response |-> "tool_result",
                                        tool_name |-> s.tool,
                                        tool_result |-> "tool_result",
                                        reused_existing |-> TRUE])}
                         ELSE ForceCreate(ToolFailed([oc EXCEPT !.reg = s.reg]))
                         : r \in RunWithRetry(s.tool)}
           : s \in {SearchTool(oc.reg, ForceSearchKwargs, e) : e \in SearchEnv}}

\* The routing of process_request on the plan pl.
Dispatch(oc, pl) ==
    CASE pl.raised # "none" -> {Raises(oc, pl.raised)}
      [] pl.strategy = "force_synthesis"  -> ForceSynthesis(oc)
      [] pl.strategy = "composite_tool"   -> ExecuteCompositeTool(oc, pl.composite_tool)
      [] pl.strategy = "workflow_pattern" -> ExecuteWorkflowPattern(oc, pl.pattern)
      [] pl.strategy \in {"multi_tool_composition", "multi_tool_sequential"} ->
            ExecuteMultiToolWorkflow(oc, pl.sub_tasks)
      [] OTHER -> ExecuteSingleTool(oc)

\* The try block of process_request.
Route(oc) ==
    UNION {IF c.raised # "none"
           THEN {Raises(oc, c.raised)}
           ELSE UNION {Dispatch([oc EXCEPT !.reg = pl.reg, !.strategy = pl.strategy], pl)
                          : pl \in {PlanExecution(c.reg, p) : p \in PlanEnvs}}
           : c \in {CleanupOrphanedTools(oc.reg, e) : e \in CleanupEnv}}

\* An outermost handler that lets the exception through.
OuterHandlerM(oc, exc) == Raises(oc, exc)

\* except Exception of process_request.
OuterHandler(oc, exc) ==
    Returns(EndSession(oc),
            [success |-> FALSE, response |-> "error_text", error |-> exc,
             session_id |-> None])

\* process_request(user_prompt, session_id, callback)
ProcessRequest(reg) ==
    {IF r.raised # "none" THEN OuterHandler(r.oc, r.raised) ELSE r
       : r \in Route([reg |-> reg, verified |-> {}, add_calls |-> {},
                      synth_calls |-> <<>>, workflow_runs |-> <<>>,
                      ended |-> FALSE, strategy |-> None,
                      tool_failed |-> FALSE, search_env |-> None,
                      response_from |-> <<>>])}

ProcessRequestOp ==
    /\ last.op = "idle"
    /\ UNCHANGED aux_vars
    /\ \E r \in ProcessRequest(Registry) :
        /\ tool_files' = r.oc.reg.tool_files
        /\ test_files' = r.oc.reg.test_files
        /\ agent_tools' = r.oc.reg.agent_tools
        /\ verified' = verified \cup r.oc.verified
        /\ add_calls' = add_calls \cup r.oc.add_calls
        /\ last' = [op |-> "process_request", strategy |-> r.oc.strategy,
                    result |-> r.result, raised |-> r.raised,
                    synth_calls |-> r.oc.synth_calls,
                    workflow_runs |-> r.oc.workflow_runs,
                    ended |-> r.oc.ended,
                    tool_failed |-> r.oc.tool_failed,
                    search_env |-> r.oc.search_env,
                    response_from |-> r.oc.response_from]

\* A tool's files are removed out-of-band (outside the registry's API).
DeleteToolFile ==
    \E n \in Names :
        /\ last.op = "idle"
        /\ UNCHANGED aux_vars
        /\ tool_files[n] # NoFile
        /\ tool_files' = [tool_files EXCEPT ![n] = NoFile]
        /\ last' = [op |-> "delete_file", name |-> n]
        /\ UNCHANGED <<test_files, agent_tools, verified, add_calls>>

(***************************************************************************)
(* Skill graph: the execution cache                                        *)
(*                                                                         *)
(* An input dictionary is the sequence of its items in insertion order.    *)
(* An item is [key, nested, sub]: the value of a key is an atom            *)
(* (nested = FALSE, sub = <<>>) or a dictionary (nested = TRUE, sub).      *)
(***************************************************************************)
Keys == {"a", "b"}
\* The order sort_keys puts the keys in.
KeyOrder == <<"a", "b">>
Atom(k) == [key |-> k, nested |-> FALSE, sub |-> <<>>]
LeafDicts == UNION {{<<Atom(k1), Atom(k2)>> : k2 \in Keys \ {k1}} : k1 \in Keys}
Values == {[nested |-> FALSE, sub |-> <<>>]}
              \cup {[nested |-> TRUE, sub |-> d] : d \in LeafDicts}
Item(k, v) == [key |-> k, nested |-> v.nested, sub |-> v.sub]
\* The inputs used: {"a": atom, "b": atom or dictionary}, in every order
\* of the keys at both depths.
InputDicts ==
    {d \in UNION {{<<Item(k1, v1), Item(k2, v2)>>
                       : k2 \in Keys \ {k1}, v1 \in Values, v2 \in Values}
                     : k1 \in Keys}
        : \A i \in 1..2 : d[i].key = "a" => ~d[i].nested}
\* The inputs whose results are cached: those with the nested dictionary
\* (a check with the flat inputs finds no row).
CachedInputs == {d \in InputDicts : \E i \in 1..2 : d[i].nested}
\* The results tools return: an ordinary one and a falsy one (the integer 0).
Outputs == {"out1", "0"}
CacheTools == {"calculate_percentage"}
\* ttl_hours=None, expires_at = None, last_accessed not yet set
NoTtl == 0 - 1
NoExpiry == 0 - 1
NeverAccessed == 0 - 1
TtlHours == {NoTtl, 0, 1, 2}

HasKey(d, k) == \E i \in DOMAIN d : d[i].key = k
ValueOf(d, k) == d[CHOOSE i \in DOMAIN d : d[i].key = k]

\* json.dumps(inputs, sort_keys=True): the items in key order, at every depth.
RECURSIVE JsonDumpsSorted(_)
JsonDumpsSorted(d) ==
    LET present == SelectSeq(KeyOrder, LAMBDA k : HasKey(d, k))
    IN  [j \in 1..Len(present) |->
            [ValueOf(d, present[j]) EXCEPT !.sub = JsonDumpsSorted(@)]]

\* A hash that puts only the outermost keys in order.
ComputeInputHashM(inputs) ==
    LET present == SelectSeq(KeyOrder, LAMBDA k : HasKey(inputs, k))
    IN  [j \in 1..Len(present) |-> ValueOf(inputs, present[j])]

\* _compute_input_hash: SHA-256 of the canonical JSON text; the digest is
\* taken to be collision-free, so the canonical text stands for it.
ComputeInputHash(inputs) == JsonDumpsSorted(inputs)

\* "if now > expiry: return None" of check_cache.
Expired(row, clock) == row.expires_at # NoExpiry /\ clock > row.expires_at

Lookup(cache, tool_name, input_hash) ==
    {r \in cache : r.tool_name = tool_name /\ r.input_hash = input_hash}

\* A lookup that counts the hit before it looks at the expiry.
CheckCacheM(cache, tool_name, inputs, clock) ==
    LET found == Lookup(cache, tool_name, ComputeInputHash(inputs))
    IN  IF found = {}
        THEN [cache |-> cache, result |-> None]
        ELSE LET cached == CHOOSE r \in found : TRUE
                 hit == [cached EXCEPT !.cache_hits = @ + 1,
                                       !.last_accessed = clock]
             IN  [cache |-> (cache \ {cached}) \cup {hit},
                  result |-> IF Expired(cached, clock) THEN None
                             ELSE cached.outputs]

\* check_cache(tool_name, inputs) at time clock.
CheckCache(cache, tool_name, inputs, clock) ==
    LET found == Lookup(cache, tool_name, ComputeInputHash(inputs))
    IN  IF found = {}
        THEN [cache |-> cache, result |-> None]
        ELSE LET cached == CHOOSE r \in found : TRUE
             IN  IF Expired(cached, clock)
                 THEN [cache |-> cache, result |-> None]
                 ELSE [cache |-> (cache \ {cached})
                                    \cup {[cached EXCEPT !.cache_hits = @ + 1,
                                                         !.last_accessed = clock]},
                       result |-> cached.outputs]

\* The upsert of one row into execution_cache, keyed by (tool_name,
\* input_hash): the columns given replace those of the row with that key,
\* the other columns keep their values (their defaults in a new row).
Upsert(cache, cache_data) ==
    LET old == Lookup(cache, cache_data.tool_name, cache_data.input_hash)
    IN  IF old = {}
        THEN cache \cup {[tool_name |-> cache_data.tool_name,
                          input_hash |-> cache_data.input_hash,
                          inputs |-> cache_data.inputs,
                          outputs |-> cache_data.outputs,
                          expires_at |-> cache_data.expires_at,
                          cache_hits |-> 0, last_accessed |-> NeverAccessed]}
        ELSE (cache \ old)
                \cup {[r EXCEPT !.inputs = cache_data.inputs,
                                !.outputs = cache_data.outputs,
                                !.expires_at = cache_data.expires_at] : r \in old}

\* A cache_result that leaves alone the row its key already has.
CacheResultOnce(cache, tool_name, inputs, outputs, ttl_hours, clock) ==
    IF Lookup(cache, tool_name, ComputeInputHash(inputs)) # {} THEN cache
    ELSE Upsert(cache, [tool_name |-> tool_name,
                        input_hash |-> ComputeInputHash(inputs),
                        inputs |-> inputs, outputs |-> outputs,
                        expires_at |-> IF ttl_hours \in {NoTtl, 0} THEN NoExpiry
                                       ELSE clock + ttl_hours])

\* cache_result(tool_name, inputs, outputs, execution_time_ms, ttl_hours)
CacheResult(cache, tool_name, inputs, outputs, ttl_hours, clock) ==
    Upsert(cache, [tool_name |-> tool_name,
                   input_hash |-> ComputeInputHash(inputs),
                   inputs |-> inputs, outputs |-> outputs,
                   expires_at |-> IF ttl_hours \in {NoTtl, 0} THEN NoExpiry
                                  ELSE clock + ttl_hours])

CacheResultOp ==
    /\ \E tool_name \in CacheTools, inputs \in CachedInputs, outputs \in Outputs,
          ttl_hours \in TtlHours :
        \E c \in {CacheResult(execution_cache, tool_name, inputs, outputs,
                              ttl_hours, now)} :
            /\ execution_cache' = c
            /\ last' = [op |-> "cache_result", tool_name |-> tool_name,
                        inputs |-> inputs, outputs |-> outputs,
                        previous |-> {r.outputs : r \in Lookup(execution_cache, tool_name,
                                                              ComputeInputHash(inputs))}]
    /\ UNCHANGED <<cache_frame, now>>

CheckCacheOp ==
    /\ \E tool_name \in CacheTools, inputs \in InputDicts :
        \E c \in {CheckCache(execution_cache, tool_name, inputs, now)} :
            /\ \A r \in c.cache : r.cache_hits <= MaxHits
            /\ execution_cache' = c.cache
            /\ last' = [op |-> "check_cache", tool_name |-> tool_name,
                        inputs |-> inputs, result |-> c.result]
    /\ UNCHANGED <<cache_frame, now>>

\* An hour passes.
Tick ==
    /\ now < MaxClock
    /\ now' = now + 1
    /\ last' = [op |-> "tick"]
    /\ UNCHANGED <<cache_frame, execution_cache>>

(***************************************************************************)
(* Workflow tracker                                                        *)
(*                                                                         *)
(* The operators work on a record t of the tracker's fields and tables.    *)
(* Every store call sits in a try block that swallows the failure.         *)
(***************************************************************************)
NoSession == 0

Tracker == [current_session_id |-> current_session_id,
            session_tools |-> session_tools,
            workflow_patterns |-> workflow_patterns,
            tool_relationships |-> tool_relationships,
            session_log |-> session_log,
            session_count |-> session_count]

Logged(t, entry) == [t EXCEPT !.session_log = Append(@, entry)]
\* A store call failed (noted once per session).
Fault(t) ==
    IF \E i \in DOMAIN t.session_log : t.session_log[i].table = "fault"
    THEN t
    ELSE Logged(t, [table |-> "fault"])

\* start_session(): a fresh id (uuid4), an empty tool list.
StartSession(t) ==
    [t EXCEPT !.current_session_id = t.session_count + 1,
              !.session_count = @ + 1,
              !.session_tools = <<>>,
              !.session_log = <<>>]

\* The update_tool_relationship RPC adds one to the counter of the pair.
UpdateToolRelationship(t, tool_a, tool_b, store_ok) ==
    IF ~store_ok THEN Fault(t)
    ELSE Logged([t EXCEPT !.tool_relationships[<<tool_a, tool_b>>] = @ + 1],
                [table |-> "tool_relationships", pair |-> <<tool_a, tool_b>>])

ToolSequence(t) == [i \in DOMAIN t.session_tools |-> t.session_tools[i].tool_name]

\* Success rates and confidence scores are fixed-point numbers: RateScale
\* stands for 1.0.  The unit is fine enough for the rates of sessions of up
\* to three executions and for two updates of a row to be exact.
RateScale == 3000
\* alpha = 0.3, in tenths
EmaAlpha == 3
\* recency_factor = min(1.0, new_frequency / 10.0)
FrequencyCeiling == 10
\* confidence = min(0.95, ...), in hundredths
ConfidenceCap == 95
\* "confidence_score": 0.5 and 0.3 of the two inserts, in tenths
InitialFullConfidence == 5
InitialSubConfidence == 3

\* successful executions / executions
SuccessRate(tools) ==
    (RateScale * Cardinality({i \in DOMAIN tools : tools[i].success})) \div Len(tools)

\* alpha * success_rate + (1 - alpha) * avg_success_rate
Ema(success_rate, avg_success_rate) ==
    (EmaAlpha * success_rate + (10 - EmaAlpha) * avg_success_rate) \div 10

\* min(0.95, new_success_rate * recency_factor)
Confidence(success_rate, frequency) ==
    LET recency_factor ==
            IF frequency >= FrequencyCeiling THEN RateScale
            ELSE (frequency * RateScale) \div FrequencyCeiling
        product == (success_rate * recency_factor) \div RateScale
        cap == (ConfidenceCap * RateScale) \div 100
    IN  IF product < cap THEN product ELSE cap

\* The update of the row `pattern`: frequency + 1 and the moving average of
\* the success rate; the update made by _mine_full_sequence_pattern writes
\* the confidence too, the one made by _update_subsequence_pattern does not.
Bump(t, pattern, success_rate, full) ==
    LET new_frequency == pattern.frequency + 1
        new_success_rate == Ema(success_rate, pattern.avg_success_rate)
    IN  Logged([t EXCEPT !.workflow_patterns =
                    (@ \ {pattern})
                        \cup {[pattern EXCEPT
                                 !.frequency = new_frequency,
                                 !.avg_success_rate = new_success_rate,
                                 !.confidence_score =
                                     IF full THEN Confidence(new_success_rate, new_frequency)
                                     ELSE @]}],
               [table |-> "workflow_patterns", pattern_name |-> pattern.pattern_name])

\* insert of a new row with frequency 1 and the initial confidence.
Insert(t, kind, tool_sequence, success_rate) ==
    Logged([t EXCEPT !.workflow_patterns =
                @ \cup {[pattern_name |-> <<kind, tool_sequence>>,
                         tool_sequence |-> tool_sequence, frequency |-> 1,
                         avg_success_rate |-> success_rate,
                         confidence_score |->
                             IF kind = "full"
                             THEN (InitialFullConfidence * RateScale) \div 10
                             ELSE (InitialSubConfidence * RateScale) \div 10]}],
           [table |-> "workflow_patterns",
            pattern_name |-> <<kind, tool_sequence>>])

\* _mine_full_sequence_pattern: the first row whose tool_sequence equals the
\* session's is updated (any of them: the rows come in no fixed order),
\* otherwise the row "A_to_B" is inserted.
MineFullSequencePattern(t, store_ok) ==
    LET existing == {p \in t.workflow_patterns : p.tool_sequence = ToolSequence(t)}
    IN  IF ~store_ok THEN {Fault(t)}
        ELSE IF existing # {}
             THEN {Bump(t, p, SuccessRate(t.session_tools), TRUE) : p \in existing}
             ELSE {Insert(t, "full", ToolSequence(t), SuccessRate(t.session_tools))}

\* _mine_pairwise_relationships: one update per pair of consecutive tools.
RECURSIVE MinePairwiseRelationships(_, _, _)
MinePairwiseRelationships(t, i, store_ok) ==
    IF i > Len(t.session_tools) - 1 THEN t
    ELSE MinePairwiseRelationships(
             UpdateToolRelationship(t, t.session_tools[i].tool_name,
                                    t.session_tools[i + 1].tool_name, store_ok),
             i + 1, store_ok)

\* _update_subsequence_pattern: the row "sub_A-B" is updated or inserted.
UpdateSubsequencePattern(t, subsequence, success_rate, store_ok) ==
    LET found == {p \in t.workflow_patterns
                    : p.pattern_name = <<"sub", subsequence>>}
    IN  IF ~store_ok THEN Fault(t)
        ELSE IF found # {} THEN Bump(t, CHOOSE p \in found : TRUE, success_rate, FALSE)
        ELSE Insert(t, "sub", subsequence, success_rate)

\* _mine_subsequence_patterns: the sliding windows of size 2 and 3.
RECURSIVE MineWindows(_, _, _, _, _)
MineWindows(t, tool_sequence, window_size, i, store_ok) ==
    IF i > Len(tool_sequence) - window_size + 1 THEN t
    ELSE MineWindows(
             UpdateSubsequencePattern(
                 t, SubSeq(tool_sequence, i, i + window_size - 1),
                 SuccessRate(SubSeq(t.session_tools, i, i + window_size - 1)), store_ok),
             tool_sequence, window_size, i + 1, store_ok)

MineSubsequencePatterns(t, store_ok) ==
    MineWindows(MineWindows(t, ToolSequence(t), 2, 1, store_ok),
                ToolSequence(t), 3, 1, store_ok)

\* _analyze_session_patterns
AnalyzeSessionPatterns(t, store_ok) ==
    IF Len(t.session_tools) < 2 THEN {t}
    ELSE {IF Len(t.session_tools) >= 3
          THEN MineSubsequencePatterns(MinePairwiseRelationships(f, 1, store_ok),
                                       store_ok)
          ELSE MinePairwiseRelationships(f, 1, store_ok)
            : f \in MineFullSequencePattern(t, store_ok)}

\* end_session()
EndTrackerSession(t, store_ok) ==
    {[a EXCEPT !.current_session_id = NoSession, !.session_tools = <<>>]
        : a \in IF t.current_session_id # NoSession /\ Len(t.session_tools) > 1
                THEN AnalyzeSessionPatterns(t, store_ok)
                ELSE {t}}

LogEnv == {"ok", "insert_raises", "rpc_raises"}

\* log_execution(tool_name, inputs, outputs, success, ...)
LogExecution(t, tool_name, success, env) ==
    LET s == IF t.current_session_id = NoSession THEN StartSession(t) ELSE t
        execution_order == Len(s.session_tools)
        tracked == [s EXCEPT !.session_tools =
                        Append(@, [tool_name |-> tool_name, success |-> success,
                                   order |-> execution_order])]
    IN  IF env = "insert_raises" THEN Fault(s)
        ELSE IF execution_order > 0
             THEN UpdateToolRelationship(
                      tracked, s.session_tools[execution_order].tool_name,
                      tool_name, env = "ok")
             ELSE tracked

\* The tracker's fields and tables become those of t.
TrackerBecomes(t) ==
    /\ current_session_id' = t.current_session_id
    /\ session_tools' = t.session_tools
    /\ workflow_patterns' = t.workflow_patterns
    /\ tool_relationships' = t.tool_relationships
    /\ session_log' = t.session_log
    /\ session_count' = t.session_count

StartSessionOp ==
    /\ session_count < MaxSessions
    /\ TrackerBecomes(StartSession(Tracker))
    /\ last' = [op |-> "start_session"]
    /\ UNCHANGED tracker_frame

LogExecutionOp ==
    /\ Len(session_tools) < MaxSessionTools
    /\ current_session_id # NoSession \/ session_count < MaxSessions
    /\ \E tool_name \in Names, success \in BOOLEAN, env \in LogEnv :
        TrackerBecomes(LogExecution(Tracker, tool_name, success, env))
    /\ last' = [op |-> "log_execution"]
    /\ UNCHANGED tracker_frame

EndSessionOp ==
    /\ \E store_ok \in BOOLEAN :
        \E t \in EndTrackerSession(Tracker, store_ok) :
            /\ TrackerBecomes(t)
            /\ last' = [op |-> "end_session",
                        tool_sequence |-> ToolSequence(Tracker),
                        session_log |-> t.session_log]
    /\ UNCHANGED tracker_frame

(***************************************************************************)
(* SecureSandbox.verify_tool, statement by statement.                      *)
(*                                                                         *)
(* Several requests may verify at once, so every call is a process of its  *)
(* own whose position is calls[i].pc; one action is one statement that     *)
(* touches Docker or the file system, and the calls interleave between     *)
(* the statements.  A call starts at most one container and makes one      *)
(* temporary directory, so both are named after the call.  Every Docker    *)
(* and file-system call may raise.                                         *)
(***************************************************************************)
MaxCalls == 2
Calls == 1..MaxCalls

NoExitCode == 0 - 1
ExitCodes == {0, 1}

NotCalled == [pc |-> "not_called", exit_code |-> NoExitCode, listed |-> <<>>, result |-> "none"]

\* The calls that are between their first statement and their end (a return,
\* or the OSError of the file writes leaving the function).
InFlight(i) == sandbox_calls[i].pc \notin {"not_called", "returned", "raised"}

\* containers.list returns the matching containers in some order.
Orderings(S) ==
    {s \in [1..Cardinality(S) -> S] :
        \A a, b \in 1..Cardinality(S) : a # b => s[a] # s[b]}

At(i, pc) == sandbox_calls[i].pc = pc

Goto(i, pc) == sandbox_calls' = [sandbox_calls EXCEPT ![i].pc = pc]

Return(i, result) ==
    sandbox_calls' = [sandbox_calls EXCEPT ![i].pc = "returned", ![i].result = result]

\* The end of the except clause: the call goes on to the finally clause with
\* the "Container execution failed" result.
Finish(i) ==
    sandbox_calls' = [sandbox_calls EXCEPT ![i].pc = "finally", ![i].listed = <<>>,
                                           ![i].result = "container_execution_failed"]

\* ensure_image_exists (and build_image when the image is absent); a failed
\* build returns before anything is created.
EnsureImageExists ==
    \E i \in Calls, build \in {"ok", "fail"} :
        /\ At(i, "not_called")
        /\ IF image_exists \/ build = "ok"
              THEN /\ image_exists' = TRUE
                   /\ Goto(i, "mkdtemp")
              ELSE /\ image_exists' = image_exists
                   /\ Return(i, "image_failed")
        /\ UNCHANGED <<containers, temp_dirs, last, sandbox_frame>>

\* temp_dir = tempfile.mkdtemp()
Mkdtemp ==
    \E i \in Calls :
        /\ At(i, "mkdtemp")
        /\ temp_dirs' = temp_dirs \cup {i}
        /\ Goto(i, "write_files")
        /\ UNCHANGED <<image_exists, containers, last, sandbox_frame>>

\* Writing tool_function.py and test_tool.py: an OSError leaves through the
\* finally clause.
WriteFiles ==
    \E i \in Calls, env \in {"ok", "raise"} :
        /\ At(i, "write_files")
        /\ sandbox_calls' =
               [sandbox_calls EXCEPT ![i].pc = IF env = "ok" THEN "run" ELSE "finally",
                                     ![i].result = IF env = "ok" THEN "none" ELSE "raised"]
        /\ UNCHANGED <<image_exists, containers, temp_dirs, last, sandbox_frame>>

\* client.containers.run(detach=True, remove=False): create, then start.  The
\* call may raise before the container is created, or after it (the start
\* failed), and then the container exists but is bound to no local.
ContainersRun ==
    \E i \in Calls, env \in {"ok", "raise_before_create", "raise_after_create"} :
        /\ At(i, "run")
        /\ containers' = IF env = "raise_before_create" THEN containers ELSE containers \cup {i}
        /\ Goto(i, IF env = "ok" THEN "wait" ELSE "except")
        /\ UNCHANGED <<image_exists, temp_dirs, last, sandbox_frame>>

\* result = container.wait(timeout=self.timeout): raises on a timeout, or
\* when the container is gone.
ContainerWait ==
    \E i \in Calls, env \in {"ok", "raise"}, code \in ExitCodes :
        /\ At(i, "wait")
        /\ i \notin containers => env = "raise"
        /\ sandbox_calls' =
               [sandbox_calls EXCEPT ![i].pc = IF env = "ok" THEN "logs" ELSE "except",
                                     ![i].exit_code = IF env = "ok" THEN code ELSE NoExitCode]
        /\ UNCHANGED <<image_exists, containers, temp_dirs, last, sandbox_frame>>

\* output = container.logs()
ContainerLogs ==
    \E i \in Calls, env \in {"ok", "raise"} :
        /\ At(i, "logs")
        /\ i \notin containers => env = "raise"
        /\ Goto(i, IF env = "ok" THEN "remove" ELSE "except")
        /\ UNCHANGED <<image_exists, containers, temp_dirs, last, sandbox_frame>>

\* container.remove(force=True), then the return statement of the try block.
ContainerRemove(C, c) == C \ {c}

RemoveContainer ==
    \E i \in Calls, env \in {"ok", "raise"} :
        /\ At(i, "remove")
        /\ i \notin containers => env = "raise"
        /\ IF env = "ok"
              THEN /\ containers' = ContainerRemove(containers, i)
                   /\ sandbox_calls' =
                          [sandbox_calls EXCEPT ![i].pc = "finally",
                                                ![i].result = IF sandbox_calls[i].exit_code = 0
                                                                 THEN "passed" ELSE "failed"]
              ELSE /\ containers' = containers
                   /\ Goto(i, "except")
        /\ UNCHANGED <<image_exists, temp_dirs, last, sandbox_frame>>

\* except Exception: containers.list(all=True, filters={"ancestor": image}).
\* Every container of the sandbox image matches the filter; a failure of the
\* list call is swallowed.
ListContainers ==
    \E i \in Calls, env \in {"ok", "raise"} :
        /\ At(i, "except")
        /\ IF env = "ok"
              THEN \E order \in Orderings(containers) :
                       sandbox_calls' = [sandbox_calls EXCEPT ![i].pc = "cleanup",
                                                              ![i].listed = order]
              ELSE Finish(i)
        /\ UNCHANGED <<image_exists, containers, temp_dirs, last, sandbox_frame>>

\* for c in containers: c.remove(force=True), one iteration.  The first
\* removal that raises (the container is already gone, or Docker fails) ends
\* the loop, and the exception is swallowed.
RemoveListed ==
    \E i \in Calls, env \in {"ok", "raise"} :
        /\ At(i, "cleanup")
        /\ IF sandbox_calls[i].listed = <<>>
              THEN /\ env = "ok"
                   /\ containers' = containers
                   /\ Finish(i)
              ELSE /\ Head(sandbox_calls[i].listed) \notin containers => env = "raise"
                   /\ IF env = "ok"
                         THEN /\ containers' =
                                     ContainerRemove(containers, Head(sandbox_calls[i].listed))
                              /\ sandbox_calls' =
                                     [sandbox_calls EXCEPT ![i].listed = Tail(@)]
                         ELSE /\ containers' = containers
                              /\ Finish(i)
        /\ UNCHANGED <<image_exists, temp_dirs, last, sandbox_frame>>

\* finally: shutil.rmtree(temp_dir), a failure of which is swallowed; then
\* the call returns its result (or lets the OSError of the writes out).
Rmtree ==
    \E i \in Calls, env \in {"ok", "raise"} :
        /\ At(i, "finally")
        /\ temp_dirs' = IF env = "ok" THEN temp_dirs \ {i} ELSE temp_dirs
        /\ Goto(i, IF sandbox_calls[i].result = "raised" THEN "raised" ELSE "returned")
        /\ UNCHANGED <<image_exists, containers, last, sandbox_frame>>

(***************************************************************************)
(* CapabilityRegistry.add_tool under concurrent requests, statement by     *)
(* statement.                                                              *)
(*                                                                         *)
(* Each writer is one add_tool call with its own code, tests and           *)
(* docstring.  The two file writes, the embedding call and the upsert are  *)
(* separate statements with no lock around them, so the writers            *)
(* interleave between them.  The docstring column of the row is tracked    *)
(* here to tell whose metadata the row carries.                            *)
(***************************************************************************)
MaxWriters == 2
Writers == 1..MaxWriters

NoDocstring == "no_row"

\* The arguments of writer w: code, tests and docstring differ per call.
WriterCode(w) == IF w = 1 THEN "impl_a" ELSE IF w = 2 THEN "impl_b" ELSE "impl_c"

WriterTests(w) == IF w = 1 THEN {"case_a"} ELSE IF w = 2 THEN {"case_b"} ELSE {"case_c"}

WriterDocstring(w) == IF w = 1 THEN "doc_a" ELSE IF w = 2 THEN "doc_b" ELSE "doc_c"

NotWriting == [pc |-> "not_called", name |-> None]

WriterAt(w, pc) == add_writers[w].pc = pc

WriterGoto(w, pc) == add_writers' = [add_writers EXCEPT ![w].pc = pc]

\* with open(tool_file, 'w') as f: f.write(code)
WriteToolFile ==
    \E w \in Writers, name \in Names :
        /\ WriterAt(w, "not_called")
        /\ tool_files' = [tool_files EXCEPT ![name] = WriterCode(w)]
        /\ add_writers' = [add_writers EXCEPT ![w] = [pc |-> "test_file", name |-> name]]
        /\ UNCHANGED <<test_files, agent_tools, row_docstring, writer_frame>>

\* with open(test_file, 'w') as f: f.write(tests)
WriteTestFile ==
    \E w \in Writers :
        /\ WriterAt(w, "test_file")
        /\ test_files' = [test_files EXCEPT ![add_writers[w].name] = WriterTests(w)]
        /\ WriterGoto(w, "embedding")
        /\ UNCHANGED <<tool_files, agent_tools, row_docstring, writer_frame>>

\* embedding = self._generate_embedding(docstring): may raise.
GenerateEmbedding ==
    \E w \in Writers, env \in {"ok", "raise"} :
        /\ WriterAt(w, "embedding")
        /\ WriterGoto(w, IF env = "ok" THEN "upsert" ELSE "raised")
        /\ UNCHANGED <<tool_files, test_files, agent_tools, row_docstring, writer_frame>>

\* self.supabase.table("agent_tools").upsert(metadata).execute(): the row
\* keyed by the name is replaced as a whole; an empty result raises.
UpsertRow ==
    \E w \in Writers, env \in {"ok", "empty"} :
        /\ WriterAt(w, "upsert")
        /\ IF env = "ok"
              THEN /\ agent_tools' = agent_tools \cup {add_writers[w].name}
                   /\ row_docstring' =
                          [row_docstring EXCEPT ![add_writers[w].name] = WriterDocstring(w)]
                   /\ WriterGoto(w, "returned")
              ELSE /\ UNCHANGED <<agent_tools, row_docstring>>
                   /\ WriterGoto(w, "raised")
        /\ UNCHANGED <<tool_files, test_files, writer_frame>>

(***************************************************************************)
(* PolicyStore                                                             *)
(*                                                                         *)
(* A row of agent_policies is one version of one policy.  The store is     *)
(* empty before the first PolicyStore is constructed.  The value is all    *)
(* the model keeps of a policy's content (policy_type and metadata do not  *)
(* decide which rows exist or are active).                                 *)
(***************************************************************************)
MaxPolicyRows == 4

\* DEFAULT_POLICIES, in the order of the dictionary (two of the six names).
DEFAULT_POLICIES == <<"retrieval_similarity_threshold", "cache_ttl">>

PolicyNames == Range(DEFAULT_POLICIES) \cup {"custom_policy"}

PolicyValues == {"default_value", "tuned_value"}

\* The version the table gives a row inserted without one.
FirstVersion == 1

VersionsOf(rows, policy_name) == {r \in rows : r.policy_name = policy_name}

ActiveOf(rows, policy_name) == {r \in VersionsOf(rows, policy_name) : r.is_active}

\* The store call of _ensure_default_policies that raises, counted in
\* policies reached (0: none raises).
NoFault == 0
Faults == 0..Len(DEFAULT_POLICIES)

\* Construction that inserts a default row without looking for an active one.
EnsureDefaultPoliciesM(rows, fault) ==
    rows \cup {[policy_name |-> DEFAULT_POLICIES[i],
                version |-> Cardinality(VersionsOf(rows, DEFAULT_POLICIES[i])) + 1,
                value |-> "default_value", created_by |-> "system", is_active |-> TRUE]
               : i \in {k \in 1..Len(DEFAULT_POLICIES) : fault = NoFault \/ k < fault}}

\* _ensure_default_policies: for each default policy in turn, insert an
\* active row unless an active row of that name exists.  A store call that
\* raises ends the loop; the exception is printed and swallowed.
EnsureDefaultPolicies(rows, fault) ==
    rows \cup {[policy_name |-> DEFAULT_POLICIES[i], version |-> FirstVersion,
                value |-> "default_value", created_by |-> "system", is_active |-> TRUE]
               : i \in {k \in 1..Len(DEFAULT_POLICIES) :
                           /\ fault = NoFault \/ k < fault
                           /\ ActiveOf(rows, DEFAULT_POLICIES[k]) = {}}}

\* The update_policy stored procedure: in one transaction, the active
\* version of the name is deactivated and a row with the next version
\* number is inserted as the active one.
UpdatePolicyRpc(rows, policy_name, value, created_by) ==
    {IF r.policy_name = policy_name THEN [r EXCEPT !.is_active = FALSE] ELSE r : r \in rows}
        \cup {[policy_name |-> policy_name,
               version |-> Cardinality(VersionsOf(rows, policy_name)) + 1,
               value |-> value, created_by |-> created_by, is_active |-> TRUE]}

UpdateEnv == {"ok", "rpc_raises", "metadata_raises"}

\* update_policy: the stored procedure, then (when metadata is given) an
\* update of the new row's metadata; any exception is re-raised.
UpdatePolicy(rows, policy_name, value, created_by, has_metadata, env) ==
    CASE env = "rpc_raises" -> [rows |-> rows, raised |-> "Exception"]
      [] env = "metadata_raises" /\ has_metadata ->
            [rows |-> UpdatePolicyRpc(rows, policy_name, value, created_by),
             raised |-> "Exception"]
      [] OTHER -> [rows |-> UpdatePolicyRpc(rows, policy_name, value, created_by),
                   raised |-> "none"]

RollbackEnv == {"ok", "select_raises", "rpc_raises", "metadata_raises"}

\* rollback_policy: False when the version does not exist or anything
\* raises; otherwise update_policy with the old value, created by "rollback".
RollbackPolicy(rows, policy_name, version, env) ==
    LET old == {r \in VersionsOf(rows, policy_name) : r.version = version}
    IN  IF env = "select_raises" \/ old = {}
        THEN [rows |-> rows, result |-> FALSE]
        ELSE LET u == UpdatePolicy(rows, policy_name, (CHOOSE r \in old : TRUE).value,
                                   "rollback", TRUE, env)
             IN  [rows |-> u.rows, result |-> u.raised = "none"]

PolicyStoreInit ==
    /\ last.op = "idle"
    /\ \E fault \in Faults :
          /\ agent_policies' = EnsureDefaultPolicies(agent_policies, fault)
          /\ last' = [op |-> "ensure_default_policies", fault |-> fault]
    /\ UNCHANGED policy_frame

UpdatePolicyOp ==
    /\ last.op = "idle"
    /\ \E policy_name \in PolicyNames, value \in PolicyValues, env \in UpdateEnv :
          /\ Cardinality(agent_policies) < MaxPolicyRows
          /\ \E u \in {UpdatePolicy(agent_policies, policy_name, value, "auto_tuner", FALSE, env)} :
                /\ agent_policies' = u.rows
                /\ last' = [op |-> "update_policy", policy_name |-> policy_name,
                            raised |-> u.raised]
    /\ UNCHANGED policy_frame

RollbackPolicyOp ==
    /\ last.op = "idle"
    /\ \E policy_name \in PolicyNames, version \in 1..MaxPolicyRows, env \in RollbackEnv :
          /\ Cardinality(agent_policies) < MaxPolicyRows
          /\ \E b \in {RollbackPolicy(agent_policies, policy_name, version, env)} :
                /\ agent_policies' = b.rows
                /\ last' = [op |-> "rollback_policy", policy_name |-> policy_name,
                            version |-> version, result |-> b.result]
    /\ UNCHANGED policy_frame

PolicyAcknowledge ==
    /\ last.op # "idle"
    /\ last' = [op |-> "idle"]
    /\ UNCHANGED <<agent_policies, policy_frame>>

(***************************************************************************)
(* Reflection engine                                                       *)
(*                                                                         *)
(* apply_fix runs inside one try block whose handler returns a failure, so *)
(* a call sees at most one exception: `fault` names the statement that     *)
(* raises ("none": no statement raises).                                   *)
(***************************************************************************)
MaxReflections == 2
MaxToolVersions == 3

Fixes == {"fix_a", "fix_b"}
\* The test produced by _generate_minimal_failing_test.
RegressionTest == "regression"

\* The keywords apply_fix passes to sandbox.verify_tool.
FixVerifyKwargs == {"function_name", "function_code", "test_code"}

ReflectionFaults ==
    {"none", "select", "generate_test", "verify", "version_select", "version_update",
     "version_insert", "write_tool", "write_test", "mark"}

VersionRowsOf(versions, tool_name) == {v \in versions : v.tool_name = tool_name}

\* A save that leaves the earlier versions flagged current.
SaveToolVersionM(versions, tool_name, code, tests, fault) ==
    LET rows == VersionRowsOf(versions, tool_name)
        next_version ==
            IF rows = {} THEN 1
            ELSE (CHOOSE v \in rows : \A w \in rows : w.version <= v.version).version + 1
    IN  CASE fault \in {"version_select", "version_update", "version_insert"} ->
                [versions |-> versions, raised |-> "Exception"]
          [] OTHER ->
                [versions |-> versions \cup {[tool_name |-> tool_name,
                                              version |-> next_version, code |-> code,
                                              tests |-> tests, is_current |-> TRUE]},
                 raised |-> "none"]

\* _save_tool_version: the next version number is one more than the highest
\* stored; all versions of the tool are flagged not current; the new version
\* is inserted as the current one.  Three store calls, executed in turn.
SaveToolVersion(versions, tool_name, code, tests, fault) ==
    LET rows == VersionRowsOf(versions, tool_name)
        next_version ==
            IF rows = {} THEN 1
            ELSE (CHOOSE v \in rows : \A w \in rows : w.version <= v.version).version + 1
        demoted == {IF v.tool_name = tool_name THEN [v EXCEPT !.is_current = FALSE] ELSE v
                      : v \in versions}
    IN  CASE fault \in {"version_select", "version_update"} ->
                [versions |-> versions, raised |-> "Exception"]
          [] fault = "version_insert" ->
                [versions |-> demoted, raised |-> "Exception"]
          [] OTHER ->
                [versions |-> demoted \cup {[tool_name |-> tool_name,
                                             version |-> next_version, code |-> code,
                                             tests |-> tests, is_current |-> TRUE]},
                 raised |-> "none"]

\* The update of the reflection row that closes a fix attempt.
MarkReflection(log, reflection_id, successful) ==
    {IF r.id = reflection_id
     THEN [r EXCEPT !.fix_applied = TRUE, !.fix_successful = successful]
     ELSE r : r \in log}

FixFailed(reg, versions, log, verification) ==
    [reg |-> reg, versions |-> versions, log |-> log, success |-> FALSE,
     verification |-> verification]

\* The branch of apply_fix taken when the fix passed its tests.
FixVerified(reg, versions, log, reflection, combined_tests, fault) ==
    LET name == reflection.tool_name
        sv == SaveToolVersion(versions, name, reflection.proposed_fix, combined_tests, fault)
        r1 == [reg EXCEPT !.tool_files[name] = reflection.proposed_fix]
        r2 == [r1 EXCEPT !.test_files[name] = combined_tests]
    IN  CASE sv.raised # "none"    -> FixFailed(reg, sv.versions, log, "pass")
          [] fault = "write_tool"  -> FixFailed(reg, sv.versions, log, "pass")
          [] fault = "write_test"  -> FixFailed(r1, sv.versions, log, "pass")
          [] fault = "mark"        -> FixFailed(r2, sv.versions, log, "pass")
          [] OTHER ->
                [reg |-> r2, versions |-> sv.versions,
                 log |-> MarkReflection(log, reflection.id, TRUE),
                 success |-> TRUE, verification |-> "pass"]

\* _get_tool_tests: the text of the test file, empty when it cannot be read.
GetToolTests(reg, name) ==
    IF reg.test_files[name] = NoTests THEN {} ELSE reg.test_files[name]

\* An apply_fix that swaps the live source although the fix failed its tests.
ApplyFixM(reg, versions, log, reflection_id, outcome, fault) ==
    LET found == {r \in log : r.id = reflection_id}
        reflection == CHOOSE r \in found : TRUE
        g == GetToolByName(reg, reflection.tool_name)
        combined_tests == GetToolTests(g.reg, reflection.tool_name) \cup {RegressionTest}
        v == IF fault = "verify" THEN "raise" ELSE VerifyTool(FixVerifyKwargs, outcome)
    IN  CASE fault = "select" \/ found = {} -> FixFailed(reg, versions, log, "not_run")
          [] g.tool = None            -> FixFailed(g.reg, versions, log, "not_run")
          [] fault = "generate_test"  -> FixFailed(g.reg, versions, log, "not_run")
          [] v = "pass" -> FixVerified(g.reg, versions, log, reflection, combined_tests, fault)
          [] v = "fail" ->
                FixFailed([g.reg EXCEPT !.tool_files[reflection.tool_name] =
                                            reflection.proposed_fix],
                          versions, MarkReflection(log, reflection.id, FALSE), "fail")
          [] OTHER -> FixFailed(g.reg, versions, log, "raise")

\* apply_fix(reflection_id, callback)
ApplyFix(reg, versions, log, reflection_id, outcome, fault) ==
    LET found == {r \in log : r.id = reflection_id}
        reflection == CHOOSE r \in found : TRUE
        g == GetToolByName(reg, reflection.tool_name)
        combined_tests == GetToolTests(g.reg, reflection.tool_name) \cup {RegressionTest}
        v == IF fault = "verify" THEN "raise" ELSE VerifyTool(FixVerifyKwargs, outcome)
    IN  CASE fault = "select" \/ found = {} -> FixFailed(reg, versions, log, "not_run")
          [] g.tool = None            -> FixFailed(g.reg, versions, log, "not_run")
          [] fault = "generate_test"  -> FixFailed(g.reg, versions, log, "not_run")
          [] v = "pass" -> FixVerified(g.reg, versions, log, reflection, combined_tests, fault)
          [] v = "fail" ->
                IF fault = "mark"
                THEN FixFailed(g.reg, versions, log, "fail")
                ELSE FixFailed(g.reg, versions,
                               MarkReflection(log, reflection.id, FALSE), "fail")
          [] OTHER -> FixFailed(g.reg, versions, log, "raise")

\* analyze_failure: a reflection with a proposed fix is logged for a tool of
\* the registry; the LLM calls and the insert are not guarded, an exception
\* leaves the function with nothing logged.
AnalyzeFailure(reg, log, tool_name, proposed_fix, env) ==
    LET g == GetToolByName(reg, tool_name)
    IN  IF g.tool = None \/ env = "raise"
        THEN [reg |-> g.reg, log |-> log]
        ELSE [reg |-> g.reg,
              log |-> log \cup {[id |-> Cardinality(log) + 1, tool_name |-> tool_name,
                                 proposed_fix |-> proposed_fix, fix_applied |-> FALSE,
                                 fix_successful |-> FALSE]}]

AnalyzeFailureOp ==
    /\ last.op = "idle"
    /\ Cardinality(reflection_log) < MaxReflections
    /\ \E tool_name \in Names, proposed_fix \in Fixes, env \in {"ok", "raise"} :
          \E a \in {AnalyzeFailure(Registry, reflection_log, tool_name, proposed_fix, env)} :
              /\ agent_tools' = a.reg.agent_tools
              /\ reflection_log' = a.log
              /\ last' = [op |-> "analyze_failure", tool_name |-> tool_name]
    /\ UNCHANGED <<tool_files, test_files, verified, add_calls, tool_versions,
                   reflection_frame>>

\* The tool a reflection is about (None: no such reflection).
ReflectedTool(log, reflection_id) ==
    IF \E r \in log : r.id = reflection_id
    THEN (CHOOSE r \in log : r.id = reflection_id).tool_name
    ELSE None

ApplyFixOp ==
    /\ last.op = "idle"
    /\ Cardinality(tool_versions) < MaxToolVersions
    /\ \E reflection_id \in 1..MaxReflections, outcome \in {"pass", "fail"},
          fault \in ReflectionFaults :
          \E f \in {ApplyFix(Registry, tool_versions, reflection_log, reflection_id,
                             outcome, fault)} :
              /\ tool_files' = f.reg.tool_files
              /\ test_files' = f.reg.test_files
              /\ agent_tools' = f.reg.agent_tools
              /\ tool_versions' = f.versions
              /\ reflection_log' = f.log
              /\ last' = [op |-> "apply_fix", reflection_id |-> reflection_id,
                          tool_name |-> ReflectedTool(reflection_log, reflection_id),
                          fault |-> fault, success |-> f.success,
                          verification |-> f.verification]
    /\ UNCHANGED <<verified, add_calls, reflection_frame>>

(***************************************************************************)
(* Composite synthesizer                                                   *)
(*                                                                         *)
(* create_candidate runs inside one try block whose handler returns a      *)
(* failure: `fault` names the statement that raises or, for the two        *)
(* inserts, returns no row ("none": every statement succeeds).             *)
(***************************************************************************)
MaxCandidates == 2

PatternIds == {1, 2}
\* spec["function_name"] as the LLM chooses it.
CompositeNames == {"composite_a", "composite_b"}
CompositeTests == {{"case"}, {"case", "imports"}}

\* verify_tool(spec["function_name"], implementation, tests): three
\* positional arguments, bound to the first three parameters.
CompositeVerifyArgs == {"function_name", "function_code", "test_code"}

CandidateFaults ==
    {"none", "insert_raise", "insert_empty", "generate_spec", "generate_tests",
     "mark_testing", "generate_implementation", "verify", "mark_rejected", "write_tool",
     "write_test", "embedding", "insert_composite_raise", "insert_composite_empty",
     "mark_approved"}

\* _register_composite: the tool file and the test file are written, the
\* embedding is generated, the row is inserted; the id of the row is
\* returned, an insert that returns no row raises.  The id of a composite is
\* its name: inserting a name that has a row is rejected by the store.
RegisterComposite(files, tools, name, implementation, tests, fault) ==
    LET f1 == [files EXCEPT ![name].code = implementation]
        f2 == [f1 EXCEPT ![name].tests = tests]
        Raised(f) == [files |-> f, tools |-> tools, raised |-> "Exception", id |-> None]
    IN  CASE fault = "write_tool" -> Raised(files)
          [] fault = "write_test" -> Raised(f1)
          [] fault \in {"embedding", "insert_composite_raise", "insert_composite_empty"} ->
                Raised(f2)
          [] \E t \in tools : t.name = name -> Raised(f2)
          [] OTHER ->
                [files |-> f2,
                 tools |-> tools \cup {[name |-> name, code |-> implementation,
                                        tests |-> tests]},
                 raised |-> "none", id |-> name]

SetStatus(candidates, candidate_id, status) ==
    {IF c.id = candidate_id THEN [c EXCEPT !.evaluation_status = status] ELSE c
       : c \in candidates}

Approve(candidates, candidate_id, composite_id) ==
    {IF c.id = candidate_id
     THEN [c EXCEPT !.evaluation_status = "approved", !.promoted_to_composite = composite_id]
     ELSE c : c \in candidates}

CandidateFailed(st, candidates, verification) ==
    [st EXCEPT !.candidates = candidates, !.success = FALSE, !.verification = verification]

\* Steps 5 and 6 with the registration made whatever the verification said.
CandidateVerifiedM(st, candidates, candidate_id, name, implementation, tests, outcome, fault) ==
    LET rc == RegisterComposite(st.files, st.tools, name, implementation, tests, fault)
        call == [name |-> name, code |-> implementation, tests |-> tests]
        s1 == [st EXCEPT !.verified = IF outcome = "pass" THEN @ \cup {call} ELSE @,
                         !.calls = @ \cup {call}, !.files = rc.files, !.tools = rc.tools]
    IN  IF rc.raised # "none" \/ fault = "mark_approved"
        THEN CandidateFailed(s1, candidates, outcome)
        ELSE [s1 EXCEPT !.candidates = Approve(candidates, candidate_id, rc.id),
                        !.success = TRUE, !.verification = outcome]

\* Steps 5 and 6 of create_candidate: the verdict of the sandbox, then the
\* rejection of the candidate or its registration and approval.
CandidateVerified(st, candidates, candidate_id, name, implementation, tests, outcome, fault) ==
    LET rc == RegisterComposite(st.files, st.tools, name, implementation, tests, fault)
        call == [name |-> name, code |-> implementation, tests |-> tests]
        s1 == [st EXCEPT !.verified = @ \cup {call}, !.calls = @ \cup {call},
                         !.files = rc.files, !.tools = rc.tools]
    IN  CASE outcome # "pass" ->
                IF fault = "mark_rejected"
                THEN CandidateFailed(st, candidates, "fail")
                ELSE CandidateFailed(st, SetStatus(candidates, candidate_id, "rejected"),
                                     "fail")
          [] rc.raised # "none" \/ fault = "mark_approved" ->
                CandidateFailed(s1, candidates, "pass")
          [] OTHER ->
                [s1 EXCEPT !.candidates = Approve(candidates, candidate_id, rc.id),
                           !.success = TRUE, !.verification = "pass"]

\* create_candidate(pattern, callback)
CreateCandidate(st, pattern_id, name, implementation, tests, outcome, fault) ==
    LET candidate_id == Cardinality(st.candidates) + 1
        pending == st.candidates \cup
                     {[id |-> candidate_id, pattern_id |-> pattern_id,
                       evaluation_status |-> "pending", promoted_to_composite |-> None]}
        testing == SetStatus(pending, candidate_id, "testing")
        v == VerifyTool(CompositeVerifyArgs, outcome)
    IN  CASE fault \in {"insert_raise", "insert_empty"} ->
                CandidateFailed(st, st.candidates, "not_run")
          [] fault \in {"generate_spec", "generate_tests", "mark_testing"} ->
                CandidateFailed(st, pending, "not_run")
          [] fault = "generate_implementation" -> CandidateFailed(st, testing, "not_run")
          [] fault = "verify" \/ v = "TypeError" -> CandidateFailed(st, testing, "raise")
          [] OTHER ->
                CandidateVerified(st, testing, candidate_id, name, implementation, tests,
                                  v, fault)

CompositeState ==
    [candidates |-> composite_candidates, tools |-> composite_tools,
     files |-> composite_files, verified |-> composite_verified,
     calls |-> register_calls, success |-> FALSE, verification |-> "not_run"]

CreateCandidateOp ==
    /\ last.op = "idle"
    /\ Cardinality(composite_candidates) < MaxCandidates
    /\ \E pattern_id \in PatternIds, name \in CompositeNames, implementation \in ImplSrc,
          tests \in CompositeTests, outcome \in {"pass", "fail"}, fault \in CandidateFaults :
          \E c \in {CreateCandidate(CompositeState, pattern_id, name, implementation, tests,
                                    outcome, fault)} :
              /\ composite_candidates' = c.candidates
              /\ composite_tools' = c.tools
              /\ composite_files' = c.files
              /\ composite_verified' = c.verified
              /\ register_calls' = c.calls
              /\ last' = [op |-> "create_candidate", name |-> name, fault |-> fault,
                          success |-> c.success, verification |-> c.verification]
    /\ UNCHANGED composite_frame

(***************************************************************************)
(* Composite synthesizer: the scan for candidates and the batch run        *)
(*                                                                         *)
(* The workflow_patterns table belongs to the tracker: a scan reads it as  *)
(* it is then, here any table of PatternTables.  Rates and confidences are *)
(* in hundredths.                                                          *)
(***************************************************************************)
Absent == 0 - 1

\* The default argument of get_policy and of the three criteria.get calls.
DefaultCriteria == [min_frequency |-> 3, min_success_rate |-> 80, min_confidence |-> 70]
\* What get_policy("composite_promotion_criteria") can return: the default
\* value, a tuned value, a tuned value that lacks keys.
CriteriaValues ==
    {DefaultCriteria,
     [min_frequency |-> 2, min_success_rate |-> 70, min_confidence |-> 60],
     [min_frequency |-> 2, min_success_rate |-> Absent, min_confidence |-> Absent]}

\* dict.get(key, default)
Get(value, default) == IF value = Absent THEN default ELSE value

\* Rows of workflow_patterns: at the default minimums, below one of them, or
\* with a null confidence_score.
PatternProfiles ==
    {[frequency |-> 3, avg_success_rate |-> 80, confidence_score |-> 70],
     [frequency |-> 2, avg_success_rate |-> 80, confidence_score |-> 70],
     [frequency |-> 3, avg_success_rate |-> 70, confidence_score |-> 70],
     [frequency |-> 3, avg_success_rate |-> 80, confidence_score |-> 60],
     [frequency |-> 3, avg_success_rate |-> 80, confidence_score |-> Absent]}
PatternTables == [PatternIds -> PatternProfiles]

ScanFaults == {"none", "query_raise", "existing_raise"}

\* The rows the workflow_patterns query returns, in one of the orders that
\* "order by frequency desc" allows.
QueryPatterns(patterns, min_frequency, min_success_rate) ==
    LET rows == {p \in PatternIds : /\ patterns[p].frequency >= min_frequency
                                   /\ patterns[p].avg_success_rate >= min_success_rate}
    IN  {s \in Orderings(rows) :
            \A a, b \in DOMAIN s : a < b => patterns[s[a]].frequency >= patterns[s[b]].frequency}

\* A scan that does not look at the confidence of a pattern.
ScanIgnoringConfidence(patterns, candidates, criteria, fault) ==
    LET Fresh(p) == ~\E c \in candidates : c.pattern_id = p
    IN  IF fault # "none" THEN {<<>>}
        ELSE {SelectSeq(rows, Fresh)
                : rows \in QueryPatterns(patterns,
                                         Get(criteria.min_frequency,
                                             DefaultCriteria.min_frequency),
                                         Get(criteria.min_success_rate,
                                             DefaultCriteria.min_success_rate))}

\* A scan that does not look for a candidate recorded for a pattern.
ScanIgnoringCandidates(patterns, candidates, criteria, fault) ==
    LET min_confidence == Get(criteria.min_confidence, DefaultCriteria.min_confidence)
        Confident(p) == patterns[p].confidence_score >= min_confidence
    IN  IF fault # "none" THEN {<<>>}
        ELSE {SelectSeq(rows, Confident)
                : rows \in QueryPatterns(patterns,
                                         Get(criteria.min_frequency,
                                             DefaultCriteria.min_frequency),
                                         Get(criteria.min_success_rate,
                                             DefaultCriteria.min_success_rate))}

\* scan_for_candidates: the query keeps the rows with enough frequency and
\* success rate; of these the loop keeps the rows with enough confidence for
\* which composite_candidates holds no row.  Comparing a null confidence
\* raises TypeError; whatever is raised inside the try block makes the
\* result the empty list.
ScanForCandidates(patterns, candidates, criteria, fault) ==
    LET min_frequency == Get(criteria.min_frequency, DefaultCriteria.min_frequency)
        min_success_rate ==
            Get(criteria.min_success_rate, DefaultCriteria.min_success_rate)
        min_confidence == Get(criteria.min_confidence, DefaultCriteria.min_confidence)
        Confident(p) == patterns[p].confidence_score >= min_confidence
        Selected(p) == Confident(p) /\ ~\E c \in candidates : c.pattern_id = p
        ScanRaises(rows) ==
            \/ fault = "query_raise"
            \/ \E i \in DOMAIN rows : patterns[rows[i]].confidence_score = Absent
            \/ fault = "existing_raise" /\ \E i \in DOMAIN rows : Confident(rows[i])
    IN  {IF ScanRaises(rows) THEN <<>> ELSE SelectSeq(rows, Selected)
           : rows \in QueryPatterns(patterns, min_frequency, min_success_rate)}

\* What the promotion criteria ask of a pattern.
MeetsMinimums(pattern, criteria) ==
    /\ pattern.frequency >= Get(criteria.min_frequency, 3)
    /\ pattern.avg_success_rate >= Get(criteria.min_success_rate, 80)
    /\ pattern.confidence_score # Absent
    /\ pattern.confidence_score >= Get(criteria.min_confidence, 70)

ScanForCandidatesOp ==
    /\ last.op = "idle"
    /\ \E patterns \in PatternTables, criteria \in CriteriaValues, fault \in ScanFaults :
          \E candidates \in ScanForCandidates(patterns, composite_candidates, criteria,
                                              fault) :
              last' = [op |-> "scan_for_candidates", fault |-> fault,
                       returned |-> Range(candidates),
                       meeting |-> {p \in PatternIds : MeetsMinimums(patterns[p], criteria)}]
    /\ UNCHANGED <<composite_vars, composite_frame>>

\* What the LLM, the sandbox and the store do for one candidate of a batch.
BatchEnvs == [outcome : {"pass", "fail"}, fault : {"none", "insert_composite_raise"}]

\* spec["function_name"] as generated for the patterns of a batch.
BatchName(pattern_id) == IF pattern_id = 1 THEN "composite_a" ELSE "composite_b"

\* The loop of run_batch_synthesis over candidates[:max_candidates].
RECURSIVE BatchLoop(_, _, _, _, _)
BatchLoop(st, candidates, max_candidates, envs, i) ==
    IF i > Len(candidates) \/ i > max_candidates THEN st
    ELSE BatchLoop(CreateCandidate(st, candidates[i], BatchName(candidates[i]), "impl_a",
                                   {"case"}, envs[i].outcome, envs[i].fault),
                   candidates, max_candidates, envs, i + 1)

\* run_batch_synthesis(max_candidates, callback)
RunBatchSynthesis(st, patterns, criteria, fault, max_candidates, envs) ==
    {[st |-> BatchLoop(st, candidates, max_candidates, envs, 1), candidates |-> candidates]
       : candidates \in ScanForCandidates(patterns, st.candidates, criteria, fault)}

RunBatchSynthesisOp ==
    /\ last.op = "idle"
    /\ \E patterns \in PatternTables, criteria \in {DefaultCriteria},
          max_candidates \in 1..Cardinality(PatternIds),
          envs \in [1..Cardinality(PatternIds) -> BatchEnvs] :
          \E b \in RunBatchSynthesis(CompositeState, patterns, criteria, "none",
                                     max_candidates, envs) :
              /\ Cardinality(b.st.candidates) <= MaxCandidates
              /\ composite_candidates' = b.st.candidates
              /\ composite_tools' = b.st.tools
              /\ composite_files' = b.st.files
              /\ composite_verified' = b.st.verified
              /\ register_calls' = b.st.calls
              /\ last' = [op |-> "run_batch_synthesis", fault |-> "none",
                          failed |-> {b.candidates[i]
                                        : i \in {j \in DOMAIN b.candidates
                                                   : /\ j <= max_candidates
                                                      /\ envs[j].outcome = "fail"}},
                          returned |-> Range(b.candidates),
                          meeting |-> {p \in PatternIds
                                         : MeetsMinimums(patterns[p], criteria)}]
    /\ UNCHANGED composite_frame

\* The interleaving requests, and a request that has not started.
Requests == 1..MaxRequests
NotStarted == [pc |-> "not_started", executions |-> <<>>, mined |-> <<>>]

Init ==
    /\ tool_files = [n \in Names |-> SeedImpl]
    /\ test_files = [n \in Names |-> SeedTests]
    /\ agent_tools = {}
    /\ verified = {}
    /\ add_calls = {}
    /\ last = [op |-> "idle"]
    /\ execution_cache = {}
    /\ now = 0
    /\ current_session_id = NoSession
    /\ session_tools = <<>>
    /\ workflow_patterns = {}
    /\ tool_relationships = [pair \in Names \X Names |-> 0]
    /\ session_log = <<>>
    /\ session_count = 0
    /\ image_exists = FALSE
    /\ containers = {}
    /\ temp_dirs = {}
    /\ sandbox_calls = [i \in Calls |-> NotCalled]
    /\ row_docstring = [n \in Names |-> NoDocstring]
    /\ add_writers = [w \in Writers |-> NotWriting]
    /\ agent_policies = {}
    /\ tool_versions = {}
    /\ reflection_log = {}
    /\ composite_candidates = {}
    /\ composite_tools = {}
    /\ composite_files = [n \in CompositeNames |-> [code |-> NoFile, tests |-> NoTests]]
    /\ composite_verified = {}
    /\ register_calls = {}
    /\ requests = [i \in Requests |-> NotStarted]

(***************************************************************************)
(* Claims                                                                  *)
(***************************************************************************)
IsSynth == last.op = "synthesize_capability"
IsRetry == last.op = "execute_with_retry"

\* C1: every capability handed to registry.add_tool passed a sandbox
\* verification of exactly that implementation and those tests before.
C1_RegisteredWereVerified == add_calls \subseteq verified

\* C2: a failed synthesis phase is the last thing the synthesis does; the
\* result is success=false with an error and `step` naming that phase, and
\* no row was added to the registry.
C2_PhaseFailureAborts ==
    IsSynth =>
        \A i \in DOMAIN last.events :
            last.events[i][2] = "failed" =>
                /\ i = Len(last.events)
                /\ last.result.success = FALSE
                /\ "error" \in DOMAIN last.result
                /\ last.result.step = last.events[i][1]
                /\ last.result.step \in Range(SynthSteps)
                /\ agent_tools = last.rows_before

C2_Witness ==
    /\ IsSynth
    /\ last.result.success = FALSE
    /\ last.result.step = "tests"
    /\ last.events[Len(last.events)] = <<"tests", "failed">>

C4_UnresolvedIsArgumentError ==
    (IsRetry /\ "null_arg" \in Range(last.trace)) =>
        /\ last.result.success = FALSE
        /\ last.result.error_type = "ArgumentError"

\* C5: an attempt that fails for an argument mismatch (a missing or an
\* unresolved argument) is the last attempt of its execute_with_retry call.
C5_ArgumentErrorNotRetried ==
    IsRetry =>
        \A i \in DOMAIN last.trace :
            last.trace[i] \in {"null_arg", "missing_arg"} => i = Len(last.trace)

\* C6: execute_with_retry makes at most max_retries+1 attempts (3 with the
\* default); a success is reported at the first attempt that succeeds, with
\* that attempt's number; ExecutionError is reported after max_retries+1
\* attempts, with attempts = max_retries+1.
C6_BoundedAttempts ==
    IsRetry =>
        /\ Len(last.trace) <= last.max_retries + 1
        /\ (last.defaulted => Len(last.trace) <= 3)
        /\ (last.result.success =>
                /\ last.result.attempts = Len(last.trace)
                /\ last.kinds[last.result.attempts] = "ok"
                /\ \A j \in 1..(last.result.attempts - 1) : last.kinds[j] # "ok")
        /\ (~last.result.success => "ok" \notin Range(last.trace))
        /\ ((~last.result.success /\ last.result.error_type = "ExecutionError") =>
                /\ last.result.attempts = last.max_retries + 1
                /\ Len(last.trace) = last.max_retries + 1)

C6_Witness ==
    /\ IsRetry
    /\ last.defaulted
    /\ last.result.success = FALSE
    /\ last.result.error_type = "ExecutionError"
    /\ last.result.attempts = 3
    /\ Len(last.trace) = 3

IsWorkflow == last.op = "execute_workflow"

\* C9: the step of execute_workflow for which no capability is found is the
\* last step entered; the result is success=false with needs_synthesis=true
\* and that step's index, and it carries no final result.
C9_MissingToolAbortsPlan ==
    IsWorkflow =>
        \A i \in DOMAIN last.searches :
            last.searches[i] = None =>
                /\ i = Len(last.searches)
                /\ Len(last.tool_sequence) = i - 1
                /\ last.result.success = FALSE
                /\ "needs_synthesis" \in DOMAIN last.result
                /\ last.result.needs_synthesis = TRUE
                /\ last.result.step_failed = i
                /\ "final_result" \notin DOMAIN last.result

C9_Witness ==
    /\ IsWorkflow
    /\ Len(last.sub_tasks) = 3
    /\ Len(last.searches) = 2
    /\ last.searches[2] = None
    /\ Len(last.tool_sequence) = 1

IsRequest == last.op = "process_request"

\* C7: one process_request call invokes synthesize_capability at most once,
\* whatever the strategy and whatever fails.
C7_SynthesisAtMostOnce == IsRequest => Len(last.synth_calls) <= 1

C7_Witness ==
    /\ IsRequest
    /\ last.strategy = "multi_tool_composition"
    /\ Len(last.workflow_runs) = 1
    /\ "needs_synthesis" \in DOMAIN last.workflow_runs[1]
    /\ Len(last.synth_calls) = 1
    /\ last.result.success = FALSE

\* C8: when the plan of a request aborts for a missing capability and code
\* generation, sandbox and registry all do their part, the capability is
\* synthesized once and the full plan is executed a second time.
C8_ResynthesizeAndRerunOnce ==
    (/\ IsRequest
     /\ Len(last.workflow_runs) >= 1
     /\ "needs_synthesis" \in DOMAIN last.workflow_runs[1]
     /\ Len(last.synth_calls) >= 1
     /\ last.synth_calls[1].env.fail_at = "none"
     /\ last.synth_calls[1].env.v1 = "pass"
     /\ last.synth_calls[1].env.add = "ok")
        => /\ Len(last.synth_calls) = 1
           /\ Len(last.workflow_runs) = 2

\* C10: process_request returns a result with a success flag and a response
\* text on every path; no exception leaves it.
C10_AlwaysResponds ==
    IsRequest =>
        /\ last.raised = "none"
        /\ {"success", "response"} \subseteq DOMAIN last.result
        /\ last.result.success \in BOOLEAN
        /\ last.result.response # None

C10_Witness ==
    /\ IsRequest
    /\ last.raised = "none"
    /\ last.result.success = FALSE
    /\ last.result.error = "KeyError"
    /\ last.result.response = "error_text"

IsSearch == last.op = "search_tool"

\* C12: search_tool returns at most one capability, and the similarity
\* score of the capability it returns is never below the threshold the
\* caller passed, or below Config.SIMILARITY_THRESHOLD when none was passed.
C12_NeverBelowThreshold ==
    IsSearch =>
        /\ last.rows <= 1
        /\ last.tool # None =>
              last.similarity_score >=
                  (IF last.threshold = NoThreshold THEN SIMILARITY_THRESHOLD
                   ELSE last.threshold)

\* A search without a threshold returned a capability that scores exactly
\* the configured default, while the other registered capability scores
\* less.
C12_Witness ==
    /\ IsSearch
    /\ last.threshold = NoThreshold
    /\ last.tool = "calculate_percentage"
    /\ last.similarity_score = SIMILARITY_THRESHOLD
    /\ "reverse_string" \in agent_tools
    /\ last.sims["reverse_string"] < SIMILARITY_THRESHOLD

\* C15: get_tool_by_name on a name whose source file is gone returns none
\* and leaves no metadata row for the name: it deletes the row if there is
\* one, and changes nothing if there is none (the repeated call); files are
\* never touched.
C15_GetPurgesMissingFile ==
    [][(last.op = "idle" /\ last'.op = "get_tool_by_name" /\ last'.file_missing)
          => /\ last'.tool = None
             /\ agent_tools' = agent_tools \ {last'.name}
             /\ tool_files' = tool_files
             /\ test_files' = test_files]_vars

\* A lookup found the row of a capability whose file had been deleted,
\* returned none and removed the row.
C15_Witness ==
    /\ last.op = "get_tool_by_name"
    /\ last.had_row
    /\ last.file_missing
    /\ last.tool = None
    /\ last.name \notin agent_tools


\* Two dictionaries hold the same items, whatever the order of their keys.
RECURSIVE SameDict(_, _)
SameDict(d1, d2) ==
    /\ Len(d1) = Len(d2)
    /\ \A i \in DOMAIN d1 :
        \E j \in DOMAIN d2 :
            /\ d1[i].key = d2[j].key
            /\ d1[i].nested = d2[j].nested
            /\ SameDict(d1[i].sub, d2[j].sub)

IsCheck == last.op = "check_cache"

\* C13: a check_cache whose inputs are a reordering (at any depth) of the
\* inputs of a cached row of the same tool that has not expired returns the
\* outputs cached in that row.
C13_CacheRoundTrip ==
    [][last'.op = "check_cache" =>
          \A r \in execution_cache :
              (/\ r.tool_name = last'.tool_name
               /\ SameDict(r.inputs, last'.inputs)
               /\ ~Expired(r, now))
                  => last'.result = r.outputs]_vars

\* A check returned the cached outputs for inputs whose nested dictionary
\* lists its keys in another order than the inputs that were cached.
C13_Witness ==
    /\ IsCheck
    /\ \E r \in execution_cache :
        /\ last.result = r.outputs
        /\ r.inputs[1].key = last.inputs[1].key
        /\ r.inputs # last.inputs

\* C14: the clock never goes back, and a check_cache that finds the row of
\* its key expired returns nothing and leaves the table as it is (no hit
\* counted, no access time set), so the row stays expired until cache_result
\* writes it again.
C14_ExpiredStaysExpired ==
    [][/\ now' >= now
       /\ last'.op = "check_cache" =>
             \A r \in execution_cache :
                 (/\ r.tool_name = last'.tool_name
                  /\ SameDict(r.inputs, last'.inputs)
                  /\ Expired(r, now))
                     => /\ last'.result = None
                        /\ execution_cache' = execution_cache]_vars

\* A row that was hit while it was fresh has expired, and the check on it
\* returned nothing and counted no further hit.
C14_Witness ==
    /\ IsCheck
    /\ last.result = None
    /\ \E r \in execution_cache :
        /\ SameDict(r.inputs, last.inputs)
        /\ Expired(r, now)
        /\ r.cache_hits = 1
        /\ r.last_accessed < r.expires_at


\* The store writes of kind `table` among the entries of a session log.
Writes(log, table) == {i \in DOMAIN log : log[i].table = table}

\* C16: a session in which exactly two executions [A, B] were logged and
\* no store call failed has, once ended, written exactly one pattern row,
\* the full sequence A -> B, and incremented the relationship A -> B
\* exactly once.
C16_OnePatternOneRelationship ==
    (/\ last.op = "end_session"
     /\ Len(last.tool_sequence) = 2
     /\ Writes(last.session_log, "fault") = {})
        => /\ Cardinality(Writes(last.session_log, "workflow_patterns")) = 1
           /\ \A i \in Writes(last.session_log, "workflow_patterns") :
                \E p \in workflow_patterns :
                    /\ p.pattern_name = last.session_log[i].pattern_name
                    /\ p.tool_sequence = last.tool_sequence
           /\ Cardinality(Writes(last.session_log, "tool_relationships")) = 1


\* C17: a single-capability request that matches no capability ends in the
\* failure of its synthesis: one synthesis ran, and when the sandbox failed
\* the tests on both runs, the result is the structured synthesis failure
\* (success = false) of the "verification" step.
C17_VerificationFailureNamed ==
    (/\ IsRequest
     /\ last.strategy = "single_tool"
     /\ last.search_env = "miss")
        => /\ Len(last.synth_calls) = 1
           /\ (/\ last.synth_calls[1].env.fail_at = "none"
               /\ last.synth_calls[1].env.v1 = "fail"
               /\ last.synth_calls[1].env.v2 = "fail")
                  => /\ ~last.result.success
                     /\ "synthesis_failed" \in DOMAIN last.result
                     /\ last.synth_calls[1].result.step = "verification"


\* C18: an add_tool that raises leaves the registry as it was: no
\* implementation file, no test file and no metadata row is written, and
\* the files and row of a capability of the same name are unchanged.
C18_RegistrationAtomic ==
    [][(last.op = "idle" /\ last'.op = "add_tool" /\ last'.raised # "none")
          => /\ tool_files' = tool_files
             /\ test_files' = test_files
             /\ agent_tools' = agent_tools]_vars


\* The caller takes the result of the operation that ran; the next
\* operation starts from there (requests are processed one after another).
Acknowledge ==
    /\ last.op # "idle"
    /\ last' = [op |-> "idle"]
    /\ UNCHANGED aux_vars
    /\ UNCHANGED <<tool_files, test_files, agent_tools, verified, add_calls>>

\* C19: whenever verify_tool has returned, the container it started and the
\* temporary directory it made no longer exist.
C19_TeardownOnEveryExit ==
    \A i \in Calls :
        sandbox_calls[i].pc = "returned" => (i \notin containers /\ i \notin temp_dirs)

\* C20: a step of one verify_tool call never removes the container of
\* another call that is still in flight.
C20_NoInterference ==
    [][\A i, j \in Calls :
          (i # j /\ sandbox_calls'[i] # sandbox_calls[i] /\ InFlight(j) /\ j \in containers)
              => j \in containers']_vars

\* C21: once two concurrent add_tool calls for the same name have both
\* returned, the implementation file, the test file and the metadata row of
\* that name all come from the same one of the two calls.
C21_WritersConverge ==
    \A w1, w2 \in Writers :
        (/\ w1 # w2
         /\ WriterAt(w1, "returned") /\ WriterAt(w2, "returned")
         /\ add_writers[w1].name = add_writers[w2].name
         /\ \A w \in Writers \ {w1, w2} : WriterAt(w, "not_called"))
            => \E w \in {w1, w2} :
                   /\ tool_files[add_writers[w].name] = WriterCode(w)
                   /\ test_files[add_writers[w].name] = WriterTests(w)
                   /\ row_docstring[add_writers[w].name] = WriterDocstring(w)

\* The versions of a policy without their active flags.
History(rows) ==
    {[policy_name |-> r.policy_name, version |-> r.version, value |-> r.value] : r \in rows}

StepOutputs(results, n) ==
    /\ Len(results) = n
    /\ \A i \in 1..n : results[i].step = i /\ results[i].uses < i

\* C23: a workflow of two or more steps that succeeded returns the output of
\* its last step as final_result, and the request that ran it returns that
\* output as tool_result and renders its response from it; the outputs of
\* earlier steps appear only as the inputs of later steps.
C23_FinalResultIsLastStep ==
    /\ (IsWorkflow /\ last.raised = "none" /\ last.result.success
            /\ Len(last.sub_tasks) >= 2)
          => /\ StepOutputs(last.result.results, Len(last.sub_tasks))
             /\ last.result.final_result = last.result.results[Len(last.sub_tasks)]
    /\ (IsRequest /\ last.raised = "none" /\ last.result.success
            /\ "multi_tool" \in DOMAIN last.result
            /\ Len(last.result.tool_sequence) >= 2)
          => LET run == last.workflow_runs[Len(last.workflow_runs)]
                 n   == Len(run.tool_sequence)
             IN  /\ StepOutputs(run.results, n)
                 /\ last.result.tool_result = run.results[n]
                 /\ last.response_from = <<run.results[n]>>

\* A request ran a two-step workflow whose second step used the output of
\* the first, and answered.
C23_Witness ==
    /\ IsRequest /\ last.raised = "none" /\ last.result.success
    /\ "multi_tool" \in DOMAIN last.result
    /\ Len(last.result.tool_sequence) = 2
    /\ last.result.tool_result.step = 2
    /\ last.result.tool_result.uses = 1
    /\ last.response_from = <<last.result.tool_result>>

\* The events of the five phases, each "in_progress" then "complete", in
\* the order of the phases.
FivePhases ==
    [i \in 1..(2 * Len(SynthSteps)) |->
        <<SynthSteps[(i + 1) \div 2], IF i % 2 = 1 THEN "in_progress" ELSE "complete">>]

IsPhaseEvent(e) == e[1] \in Range(SynthSteps)

\* C24: a synthesis succeeds when code generation, sandbox and registry do
\* their part, and the phase events of a successful synthesis are exactly
\* in_progress then complete for specification, tests, implementation,
\* verification and registration, in that order.
C24_FivePhasesInOrder ==
    IsSynth =>
        /\ last.cooperative => last.result.success
        /\ last.result.success => SelectSeq(last.events, IsPhaseEvent) = FivePhases

\* The generation call of each generation phase.
GenMethod ==
    [specification |-> "generate_spec", tests |-> "generate_tests",
     implementation |-> "generate_implementation"]

\* C25: a code-generation call that timed out is tried again: a synthesis
\* that ended in the failure of a generation phase made the call of that
\* phase more than once, and the calls of the earlier phases once.
C25_TimeoutIsRetried ==
    (IsSynth /\ ~last.result.success /\ last.result.step \in DOMAIN GenMethod)
        => /\ Cardinality({i \in DOMAIN last.gen_calls :
                              last.gen_calls[i] = GenMethod[last.result.step]}) >= 2
           /\ \A m \in Range(last.gen_calls) \ {GenMethod[last.result.step]} :
                  Cardinality({i \in DOMAIN last.gen_calls : last.gen_calls[i] = m}) = 1

IsPlan == last.op = "plan_execution"

\* C26: a composite tool above the similarity bar is the plan whatever the
\* pattern lookup and the analysis return; failing that, a workflow pattern
\* above the bar is the plan whatever the analysis returns; only when
\* neither is above the bar does the analysis decide.
C26_PlanPriority ==
    IsPlan =>
        CASE last.env.composite > HighSimilarityBar ->
                /\ last.raised = "none"
                /\ last.strategy = "composite_tool"
                /\ last.composite_tool = last.env.cname
          [] last.env.pattern > HighSimilarityBar ->
                /\ last.raised = "none"
                /\ last.strategy = "workflow_pattern"
                /\ last.pattern = last.env.pseq
          [] OTHER ->
                \/ last.raised # "none"
                \/ /\ last.strategy = "single_tool"
                   /\ \/ last.env.analysis = "simple"
                      \/ last.env.single \in Names /\ last.env.score_high
                \/ /\ last.strategy = "multi_tool_composition"
                   /\ last.env.analysis = "composition"
                \/ /\ last.strategy = "multi_tool_sequential"
                   /\ last.env.analysis = "sequential"

\* Both lookups matched above the bar and the analysis would have failed:
\* the composite tool was chosen.
C26_Witness ==
    /\ IsPlan
    /\ last.env.composite > HighSimilarityBar
    /\ last.env.pattern > HighSimilarityBar
    /\ last.env.analysis = "malformed"
    /\ last.strategy = "composite_tool"

\* The outputs a workflow run produced, whether it ran to its end or not.
OutputsOf(result) ==
    IF result.success THEN result.results ELSE result.partial_results

\* C27: for any sub-task list, a step that depends on step k ran after step
\* k produced its output and drew its arguments from that output.
C27_DependencyOrder ==
    (IsWorkflow /\ last.raised = "none" /\ last.sub_tasks # <<>>) =>
        \A i \in DOMAIN OutputsOf(last.result) :
            LET out == OutputsOf(last.result)[i]
                k   == last.sub_tasks[out.step].depends_on
            IN  k > 0 => (k < out.step /\ out.uses = k)

\* C28: apply_fix versions the capability and swaps its live source only on
\* successful verification: a call whose verification did not pass leaves the
\* live source, the tests and the version history unchanged, and a call
\* whose verification failed records the reflection as an unsuccessful fix
\* and as nothing else.
IsApplyFix == last'.op = "apply_fix"
ReflectionRow(log, reflection_id) == {r \in log : r.id = reflection_id}
C28_SwapOnlyOnVerifiedFix ==
    [][IsApplyFix =>
        /\ last'.verification # "pass" =>
              /\ tool_files' = tool_files
              /\ test_files' = test_files
              /\ tool_versions' = tool_versions
        /\ last'.verification = "fail" =>
              /\ ~last'.success
              /\ reflection_log' \in
                    {reflection_log,
                     MarkReflection(reflection_log, last'.reflection_id, FALSE)}
              /\ last'.fault = "none" =>
                    reflection_log' = MarkReflection(reflection_log, last'.reflection_id, FALSE)
        /\ last'.success =>
              /\ last'.verification = "pass"
              /\ tool_files'[last'.tool_name]
                    \in {r.proposed_fix : r \in ReflectionRow(reflection_log, last'.reflection_id)}
              /\ \E v \in tool_versions' \ tool_versions :
                    /\ v.tool_name = last'.tool_name
                    /\ v.code = tool_files'[last'.tool_name]
                    /\ v.tests = test_files'[last'.tool_name]
    ]_vars
\* A fix failed its tests after an earlier fix of the same tool was applied.
C28_Witness ==
    /\ last.op = "apply_fix"
    /\ last.verification = "fail"
    /\ last.fault = "none"
    /\ \E r \in reflection_log :
          r.id = last.reflection_id /\ r.fix_applied /\ ~r.fix_successful
    /\ \E v \in tool_versions : v.tool_name = last.tool_name

\* C29: after successful apply_fix calls on a capability exactly one of its
\* version records is flagged current, its version numbers are unique and
\* grow by one from 1, and a successful call retains every prior version and
\* leaves it flagged non-current.
VersionNumbers(rows) == {v.version : v \in rows}
C29_VersionsWellFormed ==
    \A n \in Names :
        LET rows == VersionRowsOf(tool_versions, n)
        IN  /\ Cardinality(VersionNumbers(rows)) = Cardinality(rows)
            /\ VersionNumbers(rows) = 1..Cardinality(rows)
            /\ Cardinality({v \in rows : v.is_current}) <= 1
            /\ (last.op = "apply_fix" /\ last.success /\ last.tool_name = n) =>
                  /\ Cardinality({v \in rows : v.is_current}) = 1
                  /\ \A v \in rows : v.is_current <=> v.version = Cardinality(rows)
                  /\ \A v \in rows : v.is_current => v.code = tool_files[n]
C29_PriorVersionsRetained ==
    (IsApplyFix /\ last'.success) =>
        LET n == last'.tool_name
            before == VersionRowsOf(tool_versions, n)
            after == VersionRowsOf(tool_versions', n)
        IN  /\ Cardinality(after) = Cardinality(before) + 1
            /\ \A v \in before : [v EXCEPT !.is_current = FALSE] \in after
            /\ \A m \in Names \ {n} :
                  VersionRowsOf(tool_versions', m) = VersionRowsOf(tool_versions, m)
C29_OneCurrentVersion == []C29_VersionsWellFormed /\ [][C29_PriorVersionsRetained]_vars
\* The second successful fix of one capability.
C29_Witness ==
    /\ last.op = "apply_fix"
    /\ last.success
    /\ Cardinality(VersionRowsOf(tool_versions, last.tool_name)) >= 2

\* C30: a composite capability is registered only after its synthesized code
\* passed sandbox verification: create_candidate hands to _register_composite
\* only sources that passed verify_tool in the same call, every row and
\* every file of a composite holds verified sources, and a candidate is
\* marked approved only in a call whose registration returned the row it is
\* promoted to.
IsCreateCandidate == last'.op = "create_candidate"
C30_RegisteredAreVerified ==
    /\ register_calls \subseteq composite_verified
    /\ composite_tools \subseteq register_calls
    /\ \A n \in CompositeNames :
          composite_files[n].code # NoFile =>
              \E call \in register_calls : call.name = n /\ call.code = composite_files[n].code
    /\ \A c \in composite_candidates :
          c.evaluation_status = "approved" =>
              \E t \in composite_tools : t.name = c.promoted_to_composite
C30_RegisterAfterVerification ==
    IsCreateCandidate =>
        /\ last'.verification # "pass" =>
              /\ register_calls' = register_calls
              /\ composite_tools' = composite_tools
              /\ composite_files' = composite_files
              /\ \A c \in composite_candidates' : c.evaluation_status # "approved"
                                                    \/ c \in composite_candidates
        /\ \A c \in composite_candidates' \ composite_candidates :
              c.evaluation_status = "approved" =>
                  /\ last'.success
                  /\ last'.verification = "pass"
                  /\ c.promoted_to_composite = last'.name
                  /\ \E t \in composite_tools' \ composite_tools : t.name = last'.name
C30_VerifiedBeforeRegistered ==
    []C30_RegisteredAreVerified /\ [][C30_RegisterAfterVerification]_vars
\* One candidate was rejected by the sandbox and another one was approved.
C30_Witness ==
    /\ \E c \in composite_candidates : c.evaluation_status = "rejected"
    /\ \E c \in composite_candidates :
          /\ c.evaluation_status = "approved"
          /\ \E t \in composite_tools : t.name = c.promoted_to_composite
    /\ last.op = "create_candidate"

\* C31: scan_for_candidates returns only workflow patterns whose frequency,
\* success rate and confidence all meet the policy-driven minimums and for
\* which no composite candidate is recorded.
IsScan == last'.op \in {"scan_for_candidates", "run_batch_synthesis"}
Promoted(candidates) == {c.pattern_id : c \in candidates}
C31_ScanReturnsEligibleOnly ==
    [][IsScan =>
        /\ last'.returned \subseteq last'.meeting
        /\ last'.returned \cap Promoted(composite_candidates) = {}
        /\ last'.op = "scan_for_candidates" => composite_candidates' = composite_candidates
    ]_vars
\* A scan returned one pattern and left out another one that meets the
\* minimums but has a candidate recorded.
C31_Witness ==
    /\ last.op = "scan_for_candidates"
    /\ last.returned # {}
    /\ (last.meeting \ last.returned) \cap Promoted(composite_candidates) # {}

\* C32: a candidate whose verification fails is recorded as rejected, and a
\* pattern for which create_candidate has been attempted is selected by no
\* later scan_for_candidates or run_batch_synthesis: the run returns no such
\* pattern and records no second candidate for it.
C32_RejectedIsRecorded ==
    last'.op = "run_batch_synthesis" =>
        /\ \A p \in last'.failed :
              \E c \in composite_candidates' \ composite_candidates :
                  c.pattern_id = p /\ c.evaluation_status = "rejected"
        /\ \A c \in composite_candidates' \ composite_candidates :
              c.evaluation_status = "rejected" <=> c.pattern_id \in last'.failed
C32_NotSelectedAgain ==
    IsScan =>
        /\ \A c \in composite_candidates : c.pattern_id \notin last'.returned
        /\ \A c \in composite_candidates' \ composite_candidates :
              /\ c.pattern_id \in last'.returned
              /\ c.pattern_id \notin Promoted(composite_candidates)
        /\ composite_candidates \subseteq composite_candidates'
C32_RejectedNotRetried ==
    [][C32_RejectedIsRecorded /\ C32_NotSelectedAgain]_vars
\* A batch run processed a pattern while another pattern, rejected earlier,
\* met the minimums and was left out.
C32_Witness ==
    /\ last.op = "run_batch_synthesis"
    /\ last.returned # {}
    /\ \E c \in composite_candidates :
          /\ c.evaluation_status = "rejected"
          /\ c.pattern_id \in last.meeting \ last.returned
    /\ \E c \in composite_candidates : c.pattern_id \in last.returned

\* C33: cache_result is a last-write-wins upsert: after cache_result(name,
\* inputs, o1) and then cache_result(name, inputs, o2) there is exactly one
\* entry for the key and check_cache(name, inputs) returns o2.
C33_OneEntryPerKey ==
    \A r1, r2 \in execution_cache :
        (r1.tool_name = r2.tool_name /\ r1.input_hash = r2.input_hash) => r1 = r2
C33_LastWriteIsRead ==
    last'.op = "cache_result" =>
        LET key == Lookup(execution_cache', last'.tool_name, ComputeInputHash(last'.inputs))
        IN  /\ Cardinality(key) = 1
            /\ \A r \in key : r.outputs = last'.outputs
            /\ CheckCache(execution_cache', last'.tool_name, last'.inputs, now').result
                  = last'.outputs
            /\ \A r \in execution_cache' :
                  r \notin key =>
                      /\ r \in execution_cache
                      /\ r \notin Lookup(execution_cache, last'.tool_name,
                                         ComputeInputHash(last'.inputs))
C33_LastWriteWins == []C33_OneEntryPerKey /\ [][C33_LastWriteIsRead]_vars
\* The second write of a key replaced another output.
C33_Witness ==
    /\ last.op = "cache_result"
    /\ last.previous # {}
    /\ last.outputs \notin last.previous

\* C34: when a session with n >= 2 logged executions ends (and no store call
\* fails), the full ordered sequence is mined as one pattern and every
\* contiguous window of 2 and of 3 executions is mined as a sub-sequence
\* pattern; a session with fewer than 2 executions mines nothing.
Windows(seq, size) == {SubSeq(seq, i, i + size - 1) : i \in 1..(Len(seq) - size + 1)}
MinedBy(log, before) ==
    {log[i].pattern_name : i \in {j \in Writes(log, "workflow_patterns") : j > before}}
C34_SessionMined ==
    [][(/\ last'.op = "end_session"
        /\ Writes(session_log', "fault") = {})
          => LET tool_sequence == ToolSequence(Tracker)
                 mined == MinedBy(session_log', Len(session_log))
             IN  IF Len(tool_sequence) < 2
                 THEN mined = {}
                 ELSE /\ \E name \in mined : name[2] = tool_sequence
                      /\ \A size \in {2, 3} :
                            \A window \in Windows(tool_sequence, size) :
                                <<"sub", window>> \in mined
    ]_vars

\* C35: after a session end that made every store call succeed, each
\* workflow pattern it mined (full-sequence or sub-sequence, new or already
\* existing) has confidence = min(success_rate * recency_factor, cap) with
\* recency_factor = min(1, frequency / ceiling).
C35_ConfidenceFormula ==
    [][(/\ last'.op = "end_session"
        /\ Writes(session_log', "fault") = {})
          => \A p \in workflow_patterns' :
                p.pattern_name \in MinedBy(session_log', Len(session_log)) =>
                    p.confidence_score = Confidence(p.avg_success_rate, p.frequency)
    ]_vars

(***************************************************************************)
(* The single-capability path over the execution cache                     *)
(***************************************************************************)
\* bool(value) of a tool result: None and 0 are falsy.
Truthy(value) == value \notin {None, "0"}

\* What running the matched tool does: it raises, or it returns a result.
ToolRuns == {"raise"} \cup Outputs

\* _execute_single_tool(user_prompt, ...) as far as the cache is concerned:
\* the search, the cache lookup under "if cached_result:", the execution
\* and the cache write after a successful execution. A request no tool
\* matches goes on to synthesis, a failed execution to reflection; the
\* handler of the method turns an exception into a failure result.
ExecuteSingleToolCached(reg, cache, clock, env, arguments, run) ==
    LET s == SearchTool(reg, SingleSearchKwargs, env)
        c == CheckCache(cache, s.tool, arguments, clock)
    IN  CASE s.raised # "none" ->
                [reg |-> s.reg, cache |-> cache, executed |-> FALSE,
                 result |-> [success |-> FALSE, error |-> s.raised]]
          [] s.tool = None ->
                [reg |-> s.reg, cache |-> cache, executed |-> FALSE,
                 result |-> [success |-> FALSE, error |-> "synthesis"]]
          [] Truthy(c.result) ->
                [reg |-> s.reg, cache |-> c.cache, executed |-> FALSE,
                 result |-> [success |-> TRUE, result |-> c.result,
                             tool_name |-> s.tool, cached |-> TRUE]]
          [] run = "raise" ->
                [reg |-> s.reg, cache |-> c.cache, executed |-> TRUE,
                 result |-> [success |-> FALSE, error |-> "tool"]]
          [] OTHER ->
                [reg |-> s.reg,
                 cache |-> CacheResult(c.cache, s.tool, arguments, run, NoTtl, clock),
                 executed |-> TRUE,
                 result |-> [success |-> TRUE, result |-> run,
                             tool_name |-> s.tool, cached |-> FALSE]]

\* One single-capability request: the row the store holds for the query
\* (env), the arguments extracted from the prompt and what the tool does.
ExecuteSingleToolCachedOp ==
    /\ last.op = "idle"
    /\ \E env \in SearchEnv, arguments \in CachedInputs, run \in ToolRuns :
        \E x \in {ExecuteSingleToolCached(Registry, execution_cache, now, env,
                                          arguments, run)} :
            /\ \A r \in x.cache : r.cache_hits <= MaxHits
            /\ agent_tools' = x.reg.agent_tools
            /\ execution_cache' = x.cache
            /\ last' = [op |-> "execute_single_tool", query_match |-> env,
                        arguments |-> arguments, executed |-> x.executed,
                        result |-> x.result]
    /\ UNCHANGED <<tool_files, test_files, verified, add_calls, now,
                   tracker_vars, sandbox_vars, writer_vars, policy_vars,
                   reflection_vars, composite_vars, request_vars>>

\* C37: whenever the registry holds the capability the query matches and
\* the cache holds an unexpired entry for that capability and the extracted
\* arguments, the single-capability path returns the cached output without
\* executing the capability, whatever the value.
C37_CachedOutputReturned ==
    [][(last'.op = "execute_single_tool"
            /\ last'.query_match \in agent_tools
            /\ tool_files[last'.query_match] # NoFile) =>
        \A r \in Lookup(execution_cache, last'.query_match,
                        ComputeInputHash(last'.arguments)) :
            ~Expired(r, now) =>
                /\ ~last'.executed
                /\ last'.result.success
                /\ last'.result.cached
                /\ last'.result.result = r.outputs]_vars

\* C36: once the reflection engine has replaced the source of a capability,
\* a cache lookup for that capability returns no result cached before the
\* replacement.
C36_NoStaleEntryAfterFix ==
    [][(last'.op = "apply_fix" /\ last'.success) =>
        \A inputs \in InputDicts :
            CheckCache(execution_cache', last'.tool_name, inputs, now').result = None]_vars

\* C38: when process_request has returned, on success or failure, with or
\* without synthesis, it has ended the workflow-tracker session it started.
C38_SessionEndedOnReturn ==
    last.op = "process_request" => last.ended

(***************************************************************************)
(* Interleaving requests on the one workflow tracker                       *)
(*                                                                         *)
(* The web server handles every query in a green thread of its own, and    *)
(* all of them call process_request on the same orchestrator, so on the    *)
(* same WorkflowTracker.  A request that runs a workflow starts its        *)
(* session, runs the workflow, logs one execution per step and ends the    *)
(* session; the threads switch at the network calls between these steps.   *)
(* requests[i] is the position of request i with what it has logged        *)
(* (history) and the tool sequence its end_session looked at (history).    *)
(***************************************************************************)
\* The session id the client sent with request i (uuid4 ids are at most
\* MaxSessions).
RequestSession(i) == MaxSessions + i

\* start_session(session_id) with the id of the request
StartSessionWith(t, session_id) ==
    [t EXCEPT !.current_session_id = session_id,
              !.session_tools = <<>>,
              !.session_log = <<>>]

\* self.workflow_tracker.start_session(active_session_id) of process_request
RequestStart ==
    \E i \in Requests :
        /\ requests[i].pc = "not_started"
        /\ TrackerBecomes(StartSessionWith(Tracker, RequestSession(i)))
        /\ requests' = [requests EXCEPT ![i].pc = "running"]
        /\ last' = [op |-> "request_start", request |-> i]
        /\ UNCHANGED request_frame

\* One self.workflow_tracker.log_execution(...) of the request's loop over
\* the tools of its workflow.
RequestLog ==
    \E i \in Requests :
        /\ requests[i].pc = "running"
        /\ Len(requests[i].executions) < MaxRequestTools
        /\ Len(session_tools) < MaxSessionTools
        /\ current_session_id # NoSession \/ session_count < MaxSessions
        /\ \E tool_name \in Names, env \in LogEnv :
            LET t == LogExecution(Tracker, tool_name, TRUE, env)
            IN  /\ TrackerBecomes(t)
                /\ requests' =
                     [requests EXCEPT ![i].executions =
                         IF env = "insert_raises" THEN @
                         ELSE Append(@, [tool_name |-> tool_name,
                                         session_id |-> t.current_session_id])]
                /\ last' = [op |-> "request_log", request |-> i]
        /\ UNCHANGED request_frame

\* self.workflow_tracker.end_session() of the request, then its return
RequestEnd ==
    \E i \in Requests :
        /\ requests[i].pc = "running"
        /\ \E store_ok \in BOOLEAN :
            \E t \in EndTrackerSession(Tracker, store_ok) :
                /\ TrackerBecomes(t)
                /\ requests' =
                     [requests EXCEPT
                        ![i].pc = "returned",
                        ![i].mined =
                            IF current_session_id # NoSession /\ Len(session_tools) > 1
                            THEN ToolSequence(Tracker) ELSE <<>>]
                /\ last' = [op |-> "request_end", request |-> i]
        /\ UNCHANGED request_frame

\* The tools request i logged, in order.
OwnTools(i) ==
    [k \in DOMAIN requests[i].executions |-> requests[i].executions[k].tool_name]

\* C39: when process_request calls interleave on one orchestrator, every
\* execution is logged under the session of its own request, and the
\* session a request ends mines that request's executions, all of them and
\* no others.
C39_SessionsIsolated ==
    \A i \in Requests :
        /\ \A k \in DOMAIN requests[i].executions :
              requests[i].executions[k].session_id = RequestSession(i)
        /\ requests[i].pc = "returned" =>
              requests[i].mined = IF Len(OwnTools(i)) > 1 THEN OwnTools(i) ELSE <<>>

Next ==
    \/ SeedTools
    \/ DeleteToolFile
    \/ SynthesizeCapabilityOp
    \/ ExecuteWithRetryOp
    \/ ExecuteWorkflowOp
    \/ ProcessRequestOp
    \/ Acknowledge

Spec == Init /\ [][Next]_vars

\* The capability registry on its own: tools are added, looked up and
\* searched while their files may disappear.
RegistryNext ==
    \/ AddToolOp
    \/ GetToolByNameOp
    \/ SearchToolOp
    \/ DeleteToolFile
    \/ Acknowledge

RegistrySpec == Init /\ [][RegistryNext]_vars

\* The execution cache on its own: results are cached and checked while
\* the clock advances.
CacheNext ==
    \/ CacheResultOp
    \/ CheckCacheOp
    \/ Tick

CacheSpec == Init /\ [][CacheNext]_vars

\* The workflow tracker on its own: sessions are started, executions are
\* logged and sessions are ended.
TrackerNext ==
    \/ StartSessionOp
    \/ LogExecutionOp
    \/ EndSessionOp

TrackerSpec == Init /\ [][TrackerNext]_vars

SandboxNext ==
    \/ EnsureImageExists
    \/ Mkdtemp
    \/ WriteFiles
    \/ ContainersRun
    \/ ContainerWait
    \/ ContainerLogs
    \/ RemoveContainer
    \/ ListContainers
    \/ RemoveListed
    \/ Rmtree

SandboxSpec == Init /\ [][SandboxNext]_vars

WriterNext ==
    \/ WriteToolFile
    \/ WriteTestFile
    \/ GenerateEmbedding
    \/ UpsertRow

WriterSpec == Init /\ [][WriterNext]_vars

PolicyNext ==
    \/ PolicyStoreInit
    \/ UpdatePolicyOp
    \/ RollbackPolicyOp
    \/ PolicyAcknowledge

PolicySpec == Init /\ [][PolicyNext]_vars

PlannerNext ==
    \/ SeedTools
    \/ DeleteToolFile
    \/ PlanExecutionOp
    \/ Acknowledge

PlannerSpec == Init /\ [][PlannerNext]_vars

WorkflowNext ==
    \/ SeedTools
    \/ DeleteToolFile
    \/ ExecuteAnyWorkflowOp
    \/ Acknowledge

WorkflowSpec == Init /\ [][WorkflowNext]_vars

(***************************************************************************)
(* The reflection engine over a seeded registry                            *)
(***************************************************************************)
ReflectionNext ==
    \/ SeedTools
    \/ DeleteToolFile
    \/ AnalyzeFailureOp
    \/ ApplyFixOp
    \/ Acknowledge

ReflectionSpec == Init /\ [][ReflectionNext]_vars

(***************************************************************************)
(* The composite synthesizer                                               *)
(***************************************************************************)
CompositeNext ==
    \/ CreateCandidateOp
    \/ Acknowledge

CompositeSpec == Init /\ [][CompositeNext]_vars

(***************************************************************************)
(* The composite synthesizer run in batches                                *)
(***************************************************************************)
ScanNext ==
    \/ ScanForCandidatesOp
    \/ RunBatchSynthesisOp
    \/ Acknowledge

ScanSpec == Init /\ [][ScanNext]_vars


(***************************************************************************)
(* Single-capability requests, direct cache writes and fixes               *)
(***************************************************************************)
SinglePathNext ==
    \/ SeedTools
    \/ CacheResultOp
    \/ Tick
    \/ ExecuteSingleToolCachedOp
    \/ Acknowledge

SinglePathSpec == Init /\ [][SinglePathNext]_vars

(***************************************************************************)
(* Cached results of capabilities whose source the reflection engine       *)
(* replaces                                                                *)
(***************************************************************************)
\* The first result is cached, between two other operations.
CacheFirstResult ==
    /\ last.op = "idle"
    /\ execution_cache = {}
    /\ CacheResultOp

FixCacheNext ==
    \/ SeedTools
    \/ CacheFirstResult
    \/ AnalyzeFailureOp
    \/ ApplyFixOp
    \/ Acknowledge

FixCacheSpec == Init /\ [][FixCacheNext]_vars

(***************************************************************************)
(* Requests interleaving on the workflow tracker                           *)
(***************************************************************************)
RequestsNext ==
    \/ RequestStart
    \/ RequestLog
    \/ RequestEnd

RequestsSpec == Init /\ [][RequestsNext]_vars
====
